---- MODULE Spec2Model ----
(***************************************************************************)
(* PaidMada: a unified gateway over three mobile-money networks (MVola,    *)
(* Orange Money, Airtel Money).  The module models                         *)
(*   - the status normalizers of the adapters and of the gateway's         *)
(*     callback parser (SpecStatus),                                       *)
(*   - the phone classifier (SpecPhone),                                   *)
(*   - the gateway with its real and simulated adapters (Spec).            *)
(* JavaScript strings are sequences of one-character strings, so that      *)
(* toLowerCase, toUpperCase, replace(/\D/g,''), startsWith and slice are   *)
(* computed character by character as the code does.                       *)
(***************************************************************************)
EXTENDS Integers, Sequences, FiniteSets, TLC

VARIABLES
    \* ---- status normalizers / parseCallback (SpecStatus)
    native,        \* the native status token under study (or Undefined)
    payload,       \* the raw callback payload handed to parseCallback
    cbOut,         \* the CallbackPayload parseCallback returned (or NoResult)
    qOut,          \* the status an adapter's getTransactionStatus mapped (or NoResult)
    \* ---- phone classifier (SpecPhone)
    raw,           \* the raw phone string
    phoneOut,      \* result of the last phone operation (or NoResult)
    \* ---- gateway and adapters (Spec)
    providers,     \* PaidMada.providers: network -> bound adapter (or NoAdapter)
    isMockMode,    \* PaidMada.isMockMode
    mockCfg,       \* the MockConfig given to every simulated adapter
    transactions,  \* MockProvider.transactions, per network: id -> StoredTransaction
    timers,        \* pending setTimeout callbacks of MockProvider.initiatePayment
    token,         \* BaseProvider.token, per network
    calls,         \* calls suspended at an await (adapter operations in flight)
    nextTx,        \* number of transaction ids generated so far
    last,          \* outcome of the most recently completed gateway/adapter call
    \* ---- REST server (SpecServer) and HTTP client (SpecClient)
    serverEnv,     \* process.env as server.ts and routes.ts read it
    httpReq,       \* the HTTP request being served, with its progress
    poller         \* PaidMadaClient.waitForCompletion: its loop and outcome

statusVars == <<native, payload, cbOut, qOut>>
phoneVars  == <<raw, phoneOut>>
gwVars     == <<providers, isMockMode, mockCfg, transactions, timers, token,
                calls, nextTx, last>>
edgeVars   == <<serverEnv, httpReq, poller>>
vars       == <<native, payload, cbOut, qOut, raw, phoneOut, providers,
                isMockMode, mockCfg, transactions, timers, token, calls,
                nextTx, last, serverEnv, httpReq, poller>>

(***************************************************************************)
(* JavaScript values                                                       *)
(***************************************************************************)
\* `undefined`: an absent field or argument (no character sequence equals it)
Undefined == <<"undefined">>
\* the empty string ''
EmptyStr == <<>>
\* "nothing computed yet" in the result variables
NoResult == [none |-> TRUE]

UpperChars == <<"A","B","C","D","E","F","G","H","I","J","K","L","M",
                "N","O","P","Q","R","S","T","U","V","W","X","Y","Z">>
LowerChars == <<"a","b","c","d","e","f","g","h","i","j","k","l","m",
                "n","o","p","q","r","s","t","u","v","w","x","y","z">>
DigitChars == {"0","1","2","3","4","5","6","7","8","9"}

ToLowerChar(c) ==
    IF \E i \in 1..26 : UpperChars[i] = c
    THEN LowerChars[CHOOSE i \in 1..26 : UpperChars[i] = c]
    ELSE c

ToUpperChar(c) ==
    IF \E i \in 1..26 : LowerChars[i] = c
    THEN UpperChars[CHOOSE i \in 1..26 : LowerChars[i] = c]
    ELSE c

\* status?.toLowerCase(): undefined stays undefined
toLowerCase(s) ==
    IF s = Undefined THEN Undefined ELSE [i \in 1..Len(s) |-> ToLowerChar(s[i])]

\* status?.toUpperCase()
toUpperCase(s) ==
    IF s = Undefined THEN Undefined ELSE [i \in 1..Len(s) |-> ToUpperChar(s[i])]

\* x || '' for a string-or-undefined x
OrEmpty(x) == IF x = Undefined \/ x = EmptyStr THEN EmptyStr ELSE x

\* a || b for string-or-undefined operands
OrElse(a, b) == IF a = Undefined \/ a = EmptyStr THEN b ELSE a

(***************************************************************************)
(* Enumerations (types/index.ts)                                           *)
(***************************************************************************)
MVOLA        == "mvola"
ORANGE_MONEY == "orange_money"
AIRTEL_MONEY == "airtel_money"
Provider     == {MVOLA, ORANGE_MONEY, AIRTEL_MONEY}

PENDING   == "pending"
SUCCESS   == "success"
FAILED    == "failed"
EXPIRED   == "expired"
CANCELLED == "cancelled"
TransactionStatus == {PENDING, SUCCESS, FAILED, EXPIRED, CANCELLED}

(***************************************************************************)
(* Native status vocabulary                                                *)
(***************************************************************************)
s_pending     == <<"p","e","n","d","i","n","g">>
s_success     == <<"s","u","c","c","e","s","s">>
s_successful  == <<"s","u","c","c","e","s","s","f","u","l">>
s_completed   == <<"c","o","m","p","l","e","t","e","d">>
s_failed      == <<"f","a","i","l","e","d">>
s_rejected    == <<"r","e","j","e","c","t","e","d">>
s_expired     == <<"e","x","p","i","r","e","d">>
s_cancelled   == <<"c","a","n","c","e","l","l","e","d">>
s_PENDING     == <<"P","E","N","D","I","N","G">>
s_SUCCESS     == <<"S","U","C","C","E","S","S">>
s_FAILED      == <<"F","A","I","L","E","D">>
s_EXPIRED     == <<"E","X","P","I","R","E","D">>
s_INITIATED   == <<"I","N","I","T","I","A","T","E","D">>
s_TS          == <<"T","S">>
s_TIP         == <<"T","I","P">>
s_TF          == <<"T","F">>
s_DP          == <<"D","P","0","0","8","0","0","0","0","1","0","0","1">>
\* names every JavaScript object literal inherits from Object.prototype
s_constructor == <<"c","o","n","s","t","r","u","c","t","o","r">>
s_proto       == <<"_","_","p","r","o","t","o","_","_">>
s_toString    == <<"t","o","S","t","r","i","n","g">>
s_valueOf     == <<"v","a","l","u","e","O","f">>

\* what a lookup of an inherited name yields: a function or an object,
\* truthy and not a TransactionStatus
InheritedValue == "[inherited Object.prototype member]"
ObjectPrototypeKeys == {s_constructor, s_proto, s_toString, s_valueOf}

\* map[key] on an object literal whose own properties are `own`:
\* own property first, then the prototype chain, else undefined
Lookup(own, key) ==
    IF key \in DOMAIN own THEN own[key]
    ELSE IF key \in ObjectPrototypeKeys THEN InheritedValue
    ELSE "undefined"

\* v || PENDING for the value of a lookup
OrPending(v) == IF v = "undefined" THEN PENDING ELSE v

(***************************************************************************)
(* Status Normalizers of the three real adapters                           *)
(***************************************************************************)
MVolaStatusMap ==
    (s_pending :> PENDING) @@ (s_success :> SUCCESS) @@ (s_completed :> SUCCESS)
    @@ (s_failed :> FAILED) @@ (s_rejected :> FAILED) @@ (s_expired :> EXPIRED)
    @@ (s_cancelled :> CANCELLED)

\* MVolaProvider.mapStatus
MVolaMapStatus(status) ==
    OrPending(Lookup(MVolaStatusMap, toLowerCase(status)))

OrangeStatusMap ==
    (s_INITIATED :> PENDING) @@ (s_PENDING :> PENDING) @@ (s_SUCCESS :> SUCCESS)
    @@ (s_FAILED :> FAILED) @@ (s_EXPIRED :> EXPIRED)

\* OrangeMoneyProvider.mapStatus
OrangeMapStatus(status) ==
    OrPending(Lookup(OrangeStatusMap, toUpperCase(status)))

AirtelStatusMap ==
    (s_DP :> SUCCESS) @@ (s_TS :> SUCCESS) @@ (s_TIP :> PENDING) @@ (s_TF :> FAILED)
    @@ (s_pending :> PENDING) @@ (s_success :> SUCCESS)
    @@ (s_successful :> SUCCESS) @@ (s_failed :> FAILED) @@ (s_expired :> EXPIRED)

\* AirtelMoneyProvider.mapStatus: exact key first, then the lower-cased key
AirtelMapStatus(status) ==
    LET exact == Lookup(AirtelStatusMap, status)
    IN  IF exact # "undefined" THEN exact
        ELSE OrPending(Lookup(AirtelStatusMap, toLowerCase(status)))

\* the adapter's private mapStatus, by network
AdapterMapStatus(p, status) ==
    CASE p = MVOLA        -> MVolaMapStatus(status)
      [] p = ORANGE_MONEY -> OrangeMapStatus(status)
      [] p = AIRTEL_MONEY -> AirtelMapStatus(status)

(***************************************************************************)
(* Status mappers of the gateway's callback parser                         *)
(***************************************************************************)
GwMVolaStatusMap ==
    (s_success :> SUCCESS) @@ (s_completed :> SUCCESS) @@ (s_pending :> PENDING)
    @@ (s_failed :> FAILED)

\* PaidMada.mapMVolaStatus
mapMVolaStatus(status) ==
    OrPending(Lookup(GwMVolaStatusMap, toLowerCase(status)))

GwOrangeStatusMap ==
    (s_SUCCESS :> SUCCESS) @@ (s_PENDING :> PENDING) @@ (s_FAILED :> FAILED)
    @@ (s_EXPIRED :> EXPIRED)

\* PaidMada.mapOrangeStatus
mapOrangeStatus(status) ==
    OrPending(Lookup(GwOrangeStatusMap, toUpperCase(status)))

\* PaidMada.mapAirtelStatus: strict comparisons, no table
mapAirtelStatus(status) ==
    IF status \in {s_TS, s_successful, s_success} THEN SUCCESS
    ELSE IF status \in {s_TIP, s_pending} THEN PENDING
    ELSE IF status \in {s_TF, s_failed} THEN FAILED
    ELSE PENDING

(***************************************************************************)
(* Callback payloads and upstream status responses.  A payload is a record *)
(* of the fields the code reads; an absent field is Undefined, an absent   *)
(* nested object has present = FALSE.                                      *)
(***************************************************************************)
NoTransactionObject == [present |-> FALSE, id |-> Undefined, status |-> Undefined]

EmptyPayload ==
    [transactionReference |-> Undefined, order_id |-> Undefined,
     id |-> Undefined, status |-> Undefined, transactionStatus |-> Undefined,
     transaction |-> NoTransactionObject]

\* payload.transaction || payload   (parseAirtelCallback)
AirtelCallbackTransaction(data) ==
    IF data.transaction.present
    THEN data.transaction
    ELSE [present |-> TRUE, id |-> data.id, status |-> data.status]

\* PaidMada.parseMVolaCallback
parseMVolaCallback(data) ==
    [provider      |-> MVOLA,
     transactionId |-> OrEmpty(data.transactionReference),
     status        |-> mapMVolaStatus(OrElse(data.status, data.transactionStatus))]

\* PaidMada.parseOrangeCallback
parseOrangeCallback(data) ==
    [provider      |-> ORANGE_MONEY,
     transactionId |-> OrEmpty(data.order_id),
     status        |-> mapOrangeStatus(data.status)]

\* a parser that reads the flat fields only, ignoring the nested object
parseAirtelCallbackFlat(data) ==
    [provider      |-> AIRTEL_MONEY,
     transactionId |-> OrEmpty(data.id),
     status        |-> mapAirtelStatus(data.status)]

\* PaidMada.parseAirtelCallback
parseAirtelCallback(data) ==
    LET transaction == AirtelCallbackTransaction(data)
    IN  [provider      |-> AIRTEL_MONEY,
         transactionId |-> OrEmpty(transaction.id),
         status        |-> mapAirtelStatus(transaction.status)]

\* PaidMada.parseCallback: dispatch on the network
parseCallback(p, data) ==
    CASE p = MVOLA        -> parseMVolaCallback(data)
      [] p = ORANGE_MONEY -> parseOrangeCallback(data)
      [] p = AIRTEL_MONEY -> parseAirtelCallback(data)
      [] OTHER            -> [error |-> "UNKNOWN_PROVIDER"]

\* the native status a real adapter's getTransactionStatus reads from the
\* upstream response body
StatusFieldOfResponse(p, data) ==
    CASE p = MVOLA        -> OrElse(data.transactionStatus, data.status)
      [] p = ORANGE_MONEY -> data.status
      [] p = AIRTEL_MONEY ->
            IF data.transaction.present THEN data.transaction.status ELSE Undefined

\* the TransactionDetails.status of a real adapter's getTransactionStatus
DetailsOfResponse(p, data) ==
    [provider |-> p, status |-> AdapterMapStatus(p, StatusFieldOfResponse(p, data))]

(***************************************************************************)
(* Phone classifier (utils/phone.ts)                                       *)
(***************************************************************************)
IsDigit(c) == c \in DigitChars

\* phone.replace(/\D/g, '')
StripNonDigits(phone) == SelectSeq(phone, IsDigit)

\* s.startsWith(prefix)
StartsWith(s, prefix) ==
    Len(s) >= Len(prefix) /\ SubSeq(s, 1, Len(prefix)) = prefix

\* s.slice(n): the characters from index n (0-based) on
SliceFrom(s, n) == SubSeq(s, n + 1, Len(s))

\* s.slice(0, n)
SliceTo(s, n) == SubSeq(s, 1, IF n < Len(s) THEN n ELSE Len(s))

CountryCode == <<"2","6","1">>
InternationalLen == 12
MissingZeroLen == 9
LocalLen == 10

\* a 261 rule that drops the country code without restoring the leading zero
DropCountryCodeNoZero(cleaned) ==
    IF StartsWith(cleaned, CountryCode) /\ Len(cleaned) = InternationalLen
    THEN SliceFrom(cleaned, 3)
    ELSE cleaned

\* the 261 rule of normalizePhone
DropCountryCode(cleaned) ==
    IF StartsWith(cleaned, CountryCode) /\ Len(cleaned) = InternationalLen
    THEN <<"0">> \o SliceFrom(cleaned, 3)
    ELSE cleaned

\* the leading-zero rule of normalizePhone
AddLeadingZero(cleaned) ==
    IF Len(cleaned) = MissingZeroLen /\ ~StartsWith(cleaned, <<"0">>)
    THEN <<"0">> \o cleaned
    ELSE cleaned

\* the two rules in the wrong order, the country code dropped without
\* restoring the leading zero
normalizePhoneRulesSwapped(phone) ==
    DropCountryCodeNoZero(AddLeadingZero(StripNonDigits(phone)))

\* normalizePhone
normalizePhone(phone) == AddLeadingZero(DropCountryCode(StripNonDigits(phone)))

\* a table that lost the 037 prefix
PHONE_PREFIXES_Without037 ==
    << [provider |-> MVOLA,        prefixes |-> {<<"0","3","4">>, <<"0","3","8">>}],
       [provider |-> ORANGE_MONEY, prefixes |-> {<<"0","3","2">>}],
       [provider |-> AIRTEL_MONEY, prefixes |-> {<<"0","3","3">>}] >>

\* PHONE_PREFIXES, in the order Object.entries visits it
PHONE_PREFIXES ==
    << [provider |-> MVOLA,        prefixes |-> {<<"0","3","4">>, <<"0","3","8">>}],
       [provider |-> ORANGE_MONEY, prefixes |-> {<<"0","3","2">>, <<"0","3","7">>}],
       [provider |-> AIRTEL_MONEY, prefixes |-> {<<"0","3","3">>}] >>

\* the for-loop of validatePhone: the first entry whose prefixes include
\* the prefix, or "none"
DetectedProvider(prefix) ==
    LET hits == {i \in 1..Len(PHONE_PREFIXES) : prefix \in PHONE_PREFIXES[i].prefixes}
    IN  IF hits = {} THEN "none"
        ELSE PHONE_PREFIXES[CHOOSE i \in hits : \A j \in hits : i <= j].provider

ErrLength == "Le numero doit contenir 10 chiffres"
ErrLeading == "Le numero doit commencer par 03x"
ErrPrefix == "Prefixe <prefix> non reconnu"

\* validatePhone.  error.arg is the prefix interpolated into the message.
validatePhone(phone) ==
    LET normalized == normalizePhone(phone)
        prefix     == SliceTo(normalized, 3)
        detected   == DetectedProvider(prefix)
    IN  IF Len(normalized) # LocalLen
        THEN [isValid |-> FALSE, provider |-> "none", normalizedNumber |-> Undefined,
              error |-> [msg |-> ErrLength, arg |-> EmptyStr]]
        ELSE IF ~StartsWith(normalized, <<"0","3">>)
        THEN [isValid |-> FALSE, provider |-> "none", normalizedNumber |-> Undefined,
              error |-> [msg |-> ErrLeading, arg |-> EmptyStr]]
        ELSE IF detected = "none"
        THEN [isValid |-> FALSE, provider |-> "none", normalizedNumber |-> normalized,
              error |-> [msg |-> ErrPrefix, arg |-> prefix]]
        ELSE [isValid |-> TRUE, provider |-> detected, normalizedNumber |-> normalized,
              error |-> [msg |-> "", arg |-> EmptyStr]]

\* PaidMada.detectProvider: the network, or "none" for null
detectProvider(phone) ==
    LET validation == validatePhone(phone)
    IN  IF validation.isValid /\ validation.provider # "none"
        THEN validation.provider
        ELSE "none"

(***************************************************************************)
(* Gateway state (paidmada.ts) and adapter state (mock.ts, base.ts)        *)
(***************************************************************************)
\* providers.get(p) === undefined
NoAdapter == [kind |-> "absent", provider |-> "none"]
\* BaseProvider.token === null
NoToken == [accessToken |-> "none", expiresIn |-> 0, ttl |-> 0]
\* MockProvider's fields when no configuration value is given
DefaultMockCfg == [successRate |-> 90, simulatePending |-> TRUE]
\* no call has completed yet
NoCall ==
    [via |-> "none", op |-> "none", outcome |-> "none",
     code |-> "none", provider |-> "none", status |-> "none", success |-> FALSE,
     phone |-> EmptyStr, tx |-> 0, amount |-> 0, payCalled |-> FALSE,
     afterFlip |-> FALSE, writer |-> "none", forced |-> "none",
     expected |-> "none", description |-> "none", reference |-> "none",
     stage |-> "none", cause |-> "none", http |-> 0, body |-> "none",
     paymentUrl |-> "none", msg |-> "none"]

(***************************************************************************)
(* Idle values: each specification holds the other specifications'         *)
(* variables at these values.                                              *)
(***************************************************************************)
StatusIdle ==
    /\ native = Undefined
    /\ payload = NoResult
    /\ cbOut = NoResult
    /\ qOut = NoResult

PhoneIdle ==
    /\ raw = EmptyStr
    /\ phoneOut = NoResult

\* no server is running and no client is polling
NoEnv == [apiSecretKey |-> "none"]
NoRequest == [pc |-> "none"]
NoPoller == [pc |-> "none"]

EdgeIdle ==
    /\ serverEnv = NoEnv
    /\ httpReq = NoRequest
    /\ poller = NoPoller

GatewayIdle ==
    /\ providers = [p \in Provider |-> NoAdapter]
    /\ isMockMode = FALSE
    /\ mockCfg = DefaultMockCfg
    /\ transactions = [p \in Provider |-> <<>>]
    /\ timers = {}
    /\ token = [p \in Provider |-> NoToken]
    /\ calls = {}
    /\ nextTx = 0
    /\ last = NoCall

(***************************************************************************)
(* SpecStatus: the status normalizers applied to callbacks and to upstream *)
(* status responses carrying one native status token.                      *)
(***************************************************************************)
s_empty    == EmptyStr
s_Success  == <<"S","u","c","c","e","s","s">>
s_ts       == <<"t","s">>
s_REJECTED == <<"R","E","J","E","C","T","E","D">>
s_initiated == <<"i","n","i","t","i","a","t","e","d">>
s_unknown  == <<"w","e","i","r","d">>
s_Constructor == <<"C","o","n","s","t","r","u","c","t","o","r">>

NativeTokens ==
    {Undefined, s_empty, s_unknown,
     s_pending, s_success, s_successful, s_completed, s_failed, s_rejected,
     s_expired, s_cancelled, s_PENDING, s_SUCCESS, s_FAILED, s_EXPIRED,
     s_INITIATED, s_TS, s_TIP, s_TF, s_DP, s_Success, s_ts, s_REJECTED,
     s_initiated, s_constructor, s_Constructor, s_proto, s_toString, s_valueOf}

TXN_123 == <<"T","X","N","-","1","2","3">>
OTHER_9 == <<"O","T","H","E","R","-","9">>
PayloadIds == {Undefined, TXN_123}

\* the minimal native callback payloads of network p carrying status tok
CallbackPayloads(p, tok) ==
    CASE p = MVOLA ->
           {[EmptyPayload EXCEPT !.transactionReference = i, !.status = tok]
               : i \in PayloadIds}
           \cup {[EmptyPayload EXCEPT !.transactionReference = i,
                                      !.transactionStatus = tok] : i \in PayloadIds}
      [] p = ORANGE_MONEY ->
           {[EmptyPayload EXCEPT !.order_id = i, !.status = tok] : i \in PayloadIds}
      [] p = AIRTEL_MONEY ->
           {[EmptyPayload EXCEPT
                 !.transaction = [present |-> TRUE, id |-> i, status |-> tok]]
               : i \in PayloadIds}
           \cup {[EmptyPayload EXCEPT
                 !.id = OTHER_9,
                 !.transaction = [present |-> TRUE, id |-> i, status |-> tok]]
               : i \in PayloadIds}
           \cup {[EmptyPayload EXCEPT !.id = i, !.status = tok] : i \in PayloadIds}

\* the upstream status responses of network p carrying status tok
StatusResponses(p, tok) ==
    CASE p = MVOLA ->
           {[EmptyPayload EXCEPT !.transactionStatus = tok],
            [EmptyPayload EXCEPT !.status = tok]}
      [] p = ORANGE_MONEY ->
           {[EmptyPayload EXCEPT !.status = tok]}
      [] p = AIRTEL_MONEY ->
           {[EmptyPayload EXCEPT
                 !.transaction = [present |-> TRUE, id |-> TXN_123, status |-> tok]]}

StatusInit ==
    /\ native \in NativeTokens
    /\ payload = NoResult
    /\ cbOut = NoResult
    /\ qOut = NoResult
    /\ PhoneIdle
    /\ GatewayIdle
    /\ EdgeIdle

\* the gateway parses a callback of network p
ParseCallback(p) ==
    \E d \in CallbackPayloads(p, native) :
        /\ payload' = [network |-> p, data |-> d]
        /\ cbOut' = parseCallback(p, d)
        /\ UNCHANGED <<native, qOut, phoneVars, gwVars, edgeVars>>

\* network p's adapter turns an upstream status response into details
AdapterStatusResponse(p) ==
    \E d \in StatusResponses(p, native) :
        /\ qOut' = DetailsOfResponse(p, d)
        /\ UNCHANGED <<native, payload, cbOut, phoneVars, gwVars, edgeVars>>

StatusNext ==
    \/ \E p \in Provider : ParseCallback(p)
    \/ \E p \in Provider : AdapterStatusResponse(p)

SpecStatus == StatusInit /\ [][StatusNext]_vars

(***************************************************************************)
(* Claims about the status normalizers (checked under SpecStatus)          *)
(***************************************************************************)
\* tokens that no table of any network lists, in any letter case
UnlistedTokens ==
    {Undefined, s_empty, s_unknown, s_constructor, s_Constructor, s_proto,
     s_toString, s_valueOf}

\* C1: every Status Normalizer (the adapters' mapStatus and the gateway's three
\* callback mappers) maps every native status string, unknown, empty and
\* absent ones included, to one of the five unified statuses, and a token
\* that is in no table to pending.
C1_EveryStatusIsUnified ==
    /\ cbOut # NoResult =>
          /\ cbOut.status \in TransactionStatus
          /\ native \in UnlistedTokens => cbOut.status = PENDING
    /\ qOut # NoResult =>
          /\ qOut.status \in TransactionStatus
          /\ native \in UnlistedTokens => qOut.status = PENDING

\* C2: for one network and one native status token, the status parseCallback
\* returns equals the status that network's adapter returns from
\* getTransactionStatus.
C2_CallbackAgreesWithStatusQuery ==
    (cbOut # NoResult /\ qOut # NoResult /\ cbOut.provider = qOut.provider)
        => cbOut.status = qOut.status

\* the unified status the minimal payloads are expected to give
ExpectedCallbackStatus(p, tok) ==
    CASE p = MVOLA /\ tok \in {s_success, s_completed}  -> SUCCESS
      [] p = MVOLA /\ tok = s_pending                   -> PENDING
      [] p = MVOLA /\ tok = s_failed                    -> FAILED
      [] p = ORANGE_MONEY /\ tok = s_SUCCESS            -> SUCCESS
      [] p = ORANGE_MONEY /\ tok = s_EXPIRED            -> EXPIRED
      [] p = AIRTEL_MONEY /\ tok = s_TS                 -> SUCCESS
      [] p = AIRTEL_MONEY /\ tok = s_TIP                -> PENDING
      [] p = AIRTEL_MONEY /\ tok = s_TF                 -> FAILED
      [] OTHER                                          -> "unspecified"

\* the field the transaction id of network p's callback is read from
CallbackIdField(p, d) ==
    CASE p = MVOLA        -> d.transactionReference
      [] p = ORANGE_MONEY -> d.order_id
      [] p = AIRTEL_MONEY -> d.transaction.id

\* C3: parseCallback on a minimal native payload returns that network as the
\* provider, the transaction id of that network's field (flat
\* transactionReference, flat order_id, nested transaction.id) and the
\* expected unified status.
C3_ParseCallbackMinimalPayload ==
    cbOut # NoResult =>
        LET p == payload.network
            d == payload.data
        IN  /\ cbOut.provider = p
            /\ CallbackIdField(p, d) # Undefined
                  => cbOut.transactionId = CallbackIdField(p, d)
            /\ (ExpectedCallbackStatus(p, native) # "unspecified"
                  /\ (p = AIRTEL_MONEY => d.transaction.present))
                  => cbOut.status = ExpectedCallbackStatus(p, native)

\* C3 witness: an Airtel callback with a nested transaction object, status
\* TS and id TXN-123 was parsed to success.
C3_Witness ==
    /\ cbOut # NoResult
    /\ payload.network = AIRTEL_MONEY
    /\ payload.data.transaction.present
    /\ payload.data.id = OTHER_9
    /\ native = s_TS
    /\ cbOut.status = SUCCESS
    /\ cbOut.transactionId = TXN_123

(***************************************************************************)
(* SpecPhone: the phone classifier applied to raw phone strings.           *)
(***************************************************************************)
\* number of distinct subscriber-digit patterns tried (beyond pattern 0)
MaxTailVariant == 1
DigitSeq == <<"0","1","2","3","4","5","6","7","8","9">>

\* subscriber digits: len digits, pattern k
SubscriberDigits(k, len) == [i \in 1..len |-> DigitSeq[((i + k) % 10) + 1]]

\* the digits after the leading zero: second digit, third digit, subscriber
Bodies ==
    {<<d2, d3>> \o SubscriberDigits(k, len) :
        d2 \in {"0", "3", "4"}, d3 \in DigitChars,
        k \in 0..MaxTailVariant, len \in {6, 7, 8}}

\* a separator after every character but the last
Separated(s, sep) ==
    [i \in 1..(2 * Len(s) - 1) |-> IF i % 2 = 1 THEN s[(i + 1) \div 2] ELSE sep]

\* local, +261, 261, missing leading zero, interior spaces, interior dashes
RawPhones ==
    {<<"0">> \o b : b \in Bodies}
    \cup {<<"+","2","6","1">> \o b : b \in Bodies}
    \cup {<<"2","6","1">> \o b : b \in Bodies}
    \cup Bodies
    \cup {Separated(<<"0">> \o b, " ") : b \in Bodies}
    \cup {Separated(<<"0">> \o b, "-") : b \in Bodies}
    \cup {<<"i","n","v","a","l","i","d">>, EmptyStr}

PhoneInit ==
    /\ raw \in RawPhones
    /\ phoneOut = NoResult
    /\ StatusIdle
    /\ GatewayIdle
    /\ EdgeIdle

\* normalizePhone(raw)
Normalize ==
    /\ phoneOut' = [op |-> "normalize", once |-> normalizePhone(raw),
                    twice |-> Undefined]
    /\ UNCHANGED <<raw, statusVars, gwVars, edgeVars>>

\* normalizePhone applied to the result of the previous normalizePhone
NormalizeAgain ==
    /\ phoneOut # NoResult
    /\ phoneOut.op = "normalize"
    /\ phoneOut.twice = Undefined
    /\ phoneOut' = [phoneOut EXCEPT !.twice = normalizePhone(phoneOut.once)]
    /\ UNCHANGED <<raw, statusVars, gwVars, edgeVars>>

\* validatePhone(raw)
Validate ==
    /\ phoneOut' = [op |-> "validate", validation |-> validatePhone(raw)]
    /\ UNCHANGED <<raw, statusVars, gwVars, edgeVars>>

\* PaidMada.detectProvider(raw)
Detect ==
    /\ phoneOut' = [op |-> "detect", detected |-> detectProvider(raw)]
    /\ UNCHANGED <<raw, statusVars, gwVars, edgeVars>>

PhoneNext == Normalize \/ NormalizeAgain \/ Validate \/ Detect

SpecPhone == PhoneInit /\ [][PhoneNext]_vars

(***************************************************************************)
(* Claims about the phone classifier (checked under SpecPhone)             *)
(***************************************************************************)
\* the network owning a 03x prefix, by its third digit; "none" if unowned
OwnerOfThirdDigit(c) ==
    CASE c \in {"4", "8"} -> MVOLA
      [] c \in {"2", "7"} -> ORANGE_MONEY
      [] c = "3"          -> AIRTEL_MONEY
      [] OTHER            -> "none"

\* raw normalizes to a 10-digit number starting with 03
IsLocal03(n) == Len(n) = 10 /\ n[1] = "0" /\ n[2] = "3"

\* C4: an input normalizing to a 10-digit number with a prefix of the table
\* (034, 038 MVola; 032, 037 Orange Money; 033 Airtel Money) is classified
\* valid with the owning network and the normalized number, and
\* detectProvider returns that network; any other 10-digit 03x number is
\* invalid with the reason "prefix not recognized", still carries the
\* normalized number, and detectProvider returns none.
C4_ClassifyByPrefix ==
    LET n == normalizePhone(raw)
    IN  (phoneOut # NoResult /\ IsLocal03(n)) =>
          /\ phoneOut.op = "validate" =>
               LET v == phoneOut.validation
               IN  IF OwnerOfThirdDigit(n[3]) # "none"
                   THEN /\ v.isValid
                        /\ v.provider = OwnerOfThirdDigit(n[3])
                        /\ v.normalizedNumber = n
                   ELSE /\ ~v.isValid
                        /\ v.error = [msg |-> ErrPrefix, arg |-> <<n[1], n[2], n[3]>>]
                        /\ v.error.msg \notin {ErrLength, ErrLeading}
                        /\ v.normalizedNumber = n
          /\ phoneOut.op = "detect" =>
               phoneOut.detected = OwnerOfThirdDigit(n[3])

\* C4 witness: a +261 number of prefix 037 was classified as Orange Money.
C4_Witness ==
    /\ phoneOut # NoResult
    /\ phoneOut.op = "validate"
    /\ StartsWith(raw, <<"+","2","6","1">>)
    /\ phoneOut.validation.isValid
    /\ phoneOut.validation.provider = ORANGE_MONEY
    /\ SubSeq(phoneOut.validation.normalizedNumber, 1, 3) = <<"0","3","7">>

\* C5: normalizePhone is idempotent:
\* normalizePhone(normalizePhone(x)) = normalizePhone(x).
C5_NormalizeIdempotent ==
    (phoneOut # NoResult /\ phoneOut.op = "normalize" /\ phoneOut.twice # Undefined)
        => phoneOut.twice = phoneOut.once

\* C5 witness: a 12-digit 261 input was normalized twice, the first time
\* through the country-code rewrite.
C5_Witness ==
    /\ phoneOut # NoResult
    /\ phoneOut.op = "normalize"
    /\ phoneOut.twice # Undefined
    /\ Len(StripNonDigits(raw)) = 12
    /\ StartsWith(StripNonDigits(raw), CountryCode)
    /\ Len(phoneOut.once) = 10

(***************************************************************************)
(* Gateway construction (PaidMada constructor) and adapter configuration   *)
(***************************************************************************)
\* opt ?? dflt, an optional value being {} when absent and {v} when given
Coalesce(opt, dflt) == IF opt = {} THEN dflt ELSE CHOOSE v \in opt : TRUE

\* MockProvider constructor: successRate ?? 90, simulatePending ?? true
MockConstructor(cfg) ==
    [successRate     |-> Coalesce(cfg.successRate, DefaultMockCfg.successRate),
     simulatePending |-> Coalesce(cfg.simulatePending, DefaultMockCfg.simulatePending)]

\* every simulated adapter reports network MVola
initializeMockProvidersAllMVola ==
    [p \in Provider |-> [kind |-> "mock", provider |-> MVOLA]]

\* PaidMada.initializeMockProviders: one MockProvider per network
initializeMockProviders ==
    [p \in Provider |-> [kind |-> "mock", provider |-> p]]

\* a construction that binds the real adapter of every network whose
\* credentials are supplied, in simulation mode too
initializeProvidersKeepReal(cfg) ==
    [p \in Provider |->
        IF p \in cfg.creds THEN [kind |-> "real", provider |-> p]
        ELSE IF cfg.mockEnabled THEN [kind |-> "mock", provider |-> p]
        ELSE NoAdapter]

\* PaidMada.initializeProviders
initializeProviders(cfg) ==
    IF cfg.mockEnabled
    THEN initializeMockProviders
    ELSE [p \in Provider |->
            IF p \in cfg.creds THEN [kind |-> "real", provider |-> p] ELSE NoAdapter]

\* the configurations a gateway is constructed with
Configs ==
    {[mockEnabled |-> TRUE, creds |-> c, successRate |-> r, simulatePending |-> sp] :
        c \in {{}, Provider}, r \in {{}, {0}, {100}}, sp \in {{}, {TRUE}, {FALSE}}}
    \cup {[mockEnabled |-> FALSE, creds |-> c, successRate |-> {},
           simulatePending |-> {}] :
              c \in {{}, {MVOLA}, {ORANGE_MONEY, AIRTEL_MONEY}}}

(***************************************************************************)
(* Requests                                                                *)
(***************************************************************************)
P_MVOLA   == <<"0","3","4","1","2","3","4","5","6","7">>
P_ORANGE  == <<"+","2","6","1","3","2","1","2","3","4","5","6","7">>
P_AIRTEL  == <<"0","3","3","1","2","3","4","5","6","7">>
P_UNKNOWN == <<"0","3","5","1","2","3","4","5","6","7">>
P_SHORT   == <<"0","3","4","1","2","3","4","5","6">>
P_LEAD    == <<"0","4","4","1","2","3","4","5","6","7">>
GwPhones  == {P_MVOLA, P_ORANGE, P_AIRTEL, P_UNKNOWN, P_SHORT, P_LEAD}
Amounts   == {5000}

\* PaymentRequest; provider "none" is an absent provider
PayRequests ==
    [provider : Provider \cup {"none"}, customerPhone : GwPhones, amount : Amounts]

\* a transaction id no adapter generated
UnknownTx == 0

\* PaymentRequests given to a simulated adapter used on its own: they differ
\* in every field ("none": the field is absent)
DirectRequests ==
    {[customerPhone |-> P_MVOLA, amount |-> 5000, description |-> "Test payment",
      reference |-> "ORDER-1"],
     [customerPhone |-> P_SHORT, amount |-> 1000, description |-> "none",
      reference |-> "none"]}

(***************************************************************************)
(* Bounds and timing                                                       *)
(***************************************************************************)
\* calls suspended at an await at the same time
MaxInFlight == 1
\* transaction ids generated in one behaviour
MaxTx == 1
\* transaction ids generated by a simulated adapter used on its own
MaxDirectTx == 2
\* longest artificial delay of the simulated adapter, in ticks
MaxDelay == 2
\* setTimeout(..., 3000): the flip delay, in ticks of one second
FlipDelay == 3
\* calls suspended at the same time in a real adapter used on its own
MaxRacing == 2
\* the largest maxAttempts given to waitForCompletion
MaxAttemptsGiven == 3
\* options?.maxAttempts || 30
DefaultMaxAttempts == 30
\* '\0' padding width of timingSafeCompare
PadLength == 256
\* axios timeout: 30000 ms, one tick of the real adapters' clock (30 s)
RequestTimeout == 1
\* the 60000 ms by which isTokenValid anticipates the expiry, in 30 s ticks
SafetyMargin == 2

\* bodies of the token endpoint's answers: expires_in of 60 s and of 120 s,
\* in 30 s ticks
TokenResponses ==
    {[access_token |-> "tokA", expires_in |-> 2],
     [access_token |-> "tokB", expires_in |-> 4]}

\* Math.random() * 100 lies in [0, 100): its least value, a middle value and
\* a value just below 100
RandomPercents == {0, 50, 99}

\* HTTP status of a failed upstream request (0: no response at all)
UpstreamFailures == {0, 400, 401, 403, 404, 429, 500, 503}

\* native statuses an upstream payment or status response carries
UpstreamStatuses == {s_pending, s_failed}

(***************************************************************************)
(* Completed-call records                                                  *)
(***************************************************************************)
\* the call threw PaymentError(msg, code, provider)
Failure(via, op, code, provider, phone, payCalled, msg) ==
    [via |-> via, op |-> op, outcome |-> "error",
     code |-> code, provider |-> provider, status |-> "none", success |-> FALSE,
     phone |-> phone, tx |-> 0, amount |-> 0, payCalled |-> payCalled,
     afterFlip |-> FALSE, writer |-> "none", forced |-> "none",
     expected |-> "none", description |-> "none", reference |-> "none",
     stage |-> "none", cause |-> "none", http |-> 0, body |-> "none",
     paymentUrl |-> "none", msg |-> msg]

\* the call returned a PaymentResponse
Response(c, provider, status, success, tx) ==
    [via |-> c.via, op |-> c.op, outcome |-> "response",
     code |-> "none", provider |-> provider, status |-> status, success |-> success,
     phone |-> c.phone, tx |-> tx, amount |-> c.amount,
     payCalled |-> c.via \in {"pay", "smartPay"},
     afterFlip |-> FALSE, writer |-> "none", forced |-> "none",
     expected |-> "none", description |-> c.description, reference |-> c.reference,
     stage |-> "none", cause |-> "none", http |-> 0, body |-> "none",
     paymentUrl |-> "none", msg |-> "none"]

\* the call returned TransactionDetails; writer is history: the operation
\* that last wrote the status read ("none" when nothing was read)
Details(c, provider, status, amount, found, writer) ==
    [via |-> c.via, op |-> c.op, outcome |-> "details",
     code |-> "none", provider |-> provider, status |-> status, success |-> found,
     phone |-> c.phone, tx |-> c.tx, amount |-> amount, payCalled |-> FALSE,
     afterFlip |-> c.afterFlip, writer |-> writer, forced |-> "none",
     expected |-> c.expected, description |-> "none", reference |-> "none",
     stage |-> "none", cause |-> "none", http |-> 0, body |-> "none",
     paymentUrl |-> "none", msg |-> "none"]

\* the least free call slot
FreeId == CHOOSE i \in 1..(Cardinality(calls) + 1) : \A c \in calls : c.id # i

\* a call suspended at an await
Call(via, op, p, pc, wait, phone, amount, tx, afterFlip) ==
    [id |-> FreeId, via |-> via, op |-> op, p |-> p, pc |-> pc, wait |-> wait,
     phone |-> phone, amount |-> amount, tx |-> tx, afterFlip |-> afterFlip,
     expected |-> "none", description |-> "none", reference |-> "none",
     auths |-> 0, sent |-> NoToken, headers |-> {}]

(***************************************************************************)
(* Gateway operations (paidmada.ts)                                        *)
(***************************************************************************)
\* PaidMada.hasProvider
hasProvider(p) == providers[p].kind # "absent"

\* pay validating the phone only when the network is auto-detected
PayRoutingNoPhoneCheck(req) ==
    LET detected == detectProvider(req.customerPhone)
        provider == IF req.provider = "none" THEN detected ELSE req.provider
    IN  IF req.provider = "none" /\ detected = "none"
        THEN [code |-> "PROVIDER_DETECTION_FAILED", provider |-> "none",
              msg |-> "Impossible de detecter le provider depuis le numero"]
        ELSE IF ~hasProvider(provider)
        THEN [code |-> "PROVIDER_NOT_CONFIGURED", provider |-> provider,
              msg |-> "Provider non configure"]
        ELSE [code |-> "OK", provider |-> provider, msg |-> "none"]

\* pay routing by the classified network whenever the phone classifies
PayRoutingDetectedFirst(req) ==
    LET detected   == detectProvider(req.customerPhone)
        provider   == IF detected # "none" THEN detected ELSE req.provider
        validation == validatePhone(req.customerPhone)
    IN  IF req.provider = "none" /\ detected = "none"
        THEN [code |-> "PROVIDER_DETECTION_FAILED", provider |-> "none",
              msg |-> "Impossible de detecter le provider depuis le numero"]
        ELSE IF ~validation.isValid
        THEN [code |-> "INVALID_PHONE", provider |-> "none",
              msg |-> validation.error.msg]
        ELSE IF ~hasProvider(provider)
        THEN [code |-> "PROVIDER_NOT_CONFIGURED", provider |-> provider,
              msg |-> "Provider non configure"]
        ELSE [code |-> "OK", provider |-> provider, msg |-> "none"]

\* PaidMada.pay up to the adapter call: the error it throws, or "OK" and
\* the resolved network
PayRouting(req) ==
    LET detected   == detectProvider(req.customerPhone)
        provider   == IF req.provider = "none" THEN detected ELSE req.provider
        validation == validatePhone(req.customerPhone)
    IN  IF req.provider = "none" /\ detected = "none"
        THEN [code |-> "PROVIDER_DETECTION_FAILED", provider |-> "none",
              msg |-> "Impossible de detecter le provider depuis le numero"]
        ELSE IF ~validation.isValid
        THEN [code |-> "INVALID_PHONE", provider |-> "none",
              msg |-> validation.error.msg]
        ELSE IF ~hasProvider(provider)
        THEN [code |-> "PROVIDER_NOT_CONFIGURED", provider |-> provider,
              msg |-> "Provider non configure"]
        ELSE [code |-> "OK", provider |-> provider, msg |-> "none"]

\* smartPay leaving the configuration check to pay
SmartPayRoutingNoConfigCheck(phone) ==
    LET provider == detectProvider(phone)
    IN  IF provider = "none"
        THEN [code |-> "UNKNOWN_PHONE_NUMBER", provider |-> "none", callPay |-> FALSE,
              msg |-> "Numero de telephone non reconnu"]
        ELSE [code |-> "OK", provider |-> provider, callPay |-> TRUE, msg |-> "none"]

\* PaidMada.smartPay up to the call of pay
SmartPayRouting(phone) ==
    LET provider == detectProvider(phone)
    IN  IF provider = "none"
        THEN [code |-> "UNKNOWN_PHONE_NUMBER", provider |-> "none", callPay |-> FALSE,
              msg |-> "Numero de telephone non reconnu"]
        ELSE IF ~hasProvider(provider)
        THEN [code |-> "PROVIDER_NOT_CONFIGURED", provider |-> provider,
              callPay |-> FALSE, msg |-> "Le provider n'est pas configure"]
        ELSE [code |-> "OK", provider |-> provider, callPay |-> TRUE, msg |-> "none"]

\* the headers of the adapters' HTTP client: axios.create({headers})
DefaultHeaders == {"Content-Type"}

\* the headers MVola's merchant-pay API asks for on each request
MVolaCustomHeaders ==
    {"Version", "X-CorrelationID", "UserLanguage", "UserAccountIdentifier",
     "partnerName"}

\* the headers of the upstream request an adapter issues in authenticate,
\* initiatePayment or getTransactionStatus
RequestHeaders(p, op) ==
    DefaultHeaders \cup
    (IF op = "authenticate"
     THEN (IF p = MVOLA THEN {"Authorization", "Content-Type", "Cache-Control"}
           ELSE IF p = ORANGE_MONEY THEN {"Authorization", "Content-Type"}
           ELSE {"Content-Type"})
     ELSE (IF p = MVOLA
           THEN {"Authorization", "Cache-Control"} \cup MVolaCustomHeaders
           ELSE IF p = ORANGE_MONEY THEN {"Authorization", "Content-Type"}
           ELSE {"Authorization", "Content-Type", "X-Country", "X-Currency"}))

\* a validity check that still accepts a token at the instant
\* expiresAt - 60000
isTokenValidNotStrict(p) == token[p] # NoToken /\ token[p].ttl >= 0

\* BaseProvider.isTokenValid
isTokenValid(p) == token[p] # NoToken /\ token[p].ttl > 0

\* the call a real adapter operation is suspended in after getValidToken's
\* check: in authenticate when the cached token is absent or not valid,
\* else in its own request, sending the cached token
RealCall(via, op, p, phone, amount, tx) ==
    [Call(via, op, p, IF isTokenValid(p) THEN "http" ELSE "auth", RequestTimeout,
          phone, amount, tx, FALSE)
       EXCEPT !.auths = IF isTokenValid(p) THEN 0 ELSE 1,
              !.sent = IF isTokenValid(p) THEN token[p] ELSE NoToken,
              !.headers = IF isTokenValid(p) THEN RequestHeaders(p, op)
                          ELSE RequestHeaders(p, "authenticate")]

\* transaction ids still to be generated by the calls in flight
IdsReserved == Cardinality({c \in calls : c.op = "initiatePayment" /\ c.pc = "delay"})

\* adapter.initiatePayment({...request, provider}) up to its first await:
\* the simulated adapter awaits its delay, a real adapter awaits
\* authenticate (token absent or not valid) or the payment request
StartInitiate(via, p, phone, amount) ==
    /\ Cardinality(calls) < MaxInFlight
    /\ IF providers[p].kind = "mock"
       THEN /\ nextTx + IdsReserved < MaxTx
            /\ \E w \in 1..MaxDelay :
                 calls' = calls \cup
                    {Call(via, "initiatePayment", p, "delay", w, phone, amount, 0, FALSE)}
       ELSE calls' = calls \cup {RealCall(via, "initiatePayment", p, phone, amount, 0)}
    /\ UNCHANGED <<providers, isMockMode, mockCfg, transactions, timers, token,
                   nextTx, last>>

\* the call throws before any adapter is reached
Throw(failure) ==
    /\ last' = failure
    /\ UNCHANGED <<providers, isMockMode, mockCfg, transactions, timers, token,
                   calls, nextTx>>

\* PaidMada.pay(req), called directly (via = "pay") or by smartPay
PayBody(via, req) ==
    LET r == PayRouting(req)
    IN  IF r.code # "OK"
        THEN Throw(Failure(via, "pay", r.code, r.provider, req.customerPhone,
                           TRUE, r.msg))
        ELSE StartInitiate(via, r.provider, req.customerPhone, req.amount)

Pay ==
    /\ \E req \in PayRequests : PayBody("pay", req)
    /\ UNCHANGED <<statusVars, phoneVars, edgeVars>>

\* PaidMada.smartPay(customerPhone, amount)
SmartPay ==
    /\ \E phone \in GwPhones, amount \in Amounts :
         LET r == SmartPayRouting(phone)
         IN  IF ~r.callPay
             THEN Throw(Failure("smartPay", "smartPay", r.code, r.provider, phone,
                                FALSE, r.msg))
             ELSE PayBody("smartPay", [provider |-> r.provider,
                                       customerPhone |-> phone, amount |-> amount])
    /\ UNCHANGED <<statusVars, phoneVars, edgeVars>>

\* whether the flip delay of transaction tx has elapsed: the id was
\* generated and its timer is due or has fired
FlipElapsed(tx) ==
    /\ tx \in 1..nextTx
    /\ ~\E t \in timers : t.tx = tx /\ t.remaining > 0

\* history: the status the latest setTransactionStatus gave transaction tx
\* of adapter p ("none": never force-set, or not stored)
ForcedStatus(p, tx) ==
    IF tx \in DOMAIN transactions[p] THEN transactions[p][tx].forced ELSE "none"

\* adapter.getTransactionStatus(request) up to its first await
StartStatus(via, p, tx) ==
    /\ Cardinality(calls) < MaxInFlight
    /\ IF providers[p].kind = "mock"
       THEN \E w \in 1..MaxDelay :
              calls' = calls \cup
                 {[Call(via, "getTransactionStatus", p, "delay", w, EmptyStr, 0, tx,
                        FlipElapsed(tx))
                     EXCEPT !.expected = ForcedStatus(p, tx)]}
       ELSE calls' = calls \cup
               {RealCall(via, "getTransactionStatus", p, EmptyStr, 0, tx)}
    /\ UNCHANGED <<providers, isMockMode, mockCfg, transactions, timers, token,
                   nextTx, last>>

\* PaidMada.getStatus(request)
GetStatus ==
    /\ \E p \in Provider, tx \in (1..nextTx) \cup {UnknownTx} :
         IF ~hasProvider(p)
         THEN Throw(Failure("getStatus", "getStatus", "PROVIDER_NOT_CONFIGURED", p,
                            EmptyStr, FALSE, "Provider non configure"))
         ELSE StartStatus("getStatus", p, tx)
    /\ UNCHANGED <<statusVars, phoneVars, edgeVars>>

(***************************************************************************)
(* Simulated adapter (providers/mock.ts)                                   *)
(***************************************************************************)
\* a success rate of 0 taken for an absent one (successRate || 90)
shouldSucceedRateOrDefault(r) ==
    r < (IF mockCfg.successRate = 0 THEN 90 ELSE mockCfg.successRate)

\* MockProvider.shouldSucceed, r being the value of Math.random() * 100
shouldSucceed(r) == r < mockCfg.successRate

\* a timer callback with its test inverted: it leaves a pending
\* transaction alone
FlippedUnlessPending(tx, willSucceed) ==
    IF tx.status # PENDING
    THEN [tx EXCEPT !.status = IF willSucceed THEN SUCCESS ELSE FAILED,
                    !.completed = TRUE, !.writer = "timer"]
    ELSE tx

\* a timer callback that writes the drawn outcome whatever the status is
FlippedAlways(tx, willSucceed) ==
    [tx EXCEPT !.status = IF willSucceed THEN SUCCESS ELSE FAILED,
               !.completed = TRUE, !.writer = "timer"]

\* the setTimeout callback applied to a stored transaction
Flipped(tx, willSucceed) ==
    IF tx.status = PENDING
    THEN [tx EXCEPT !.status = IF willSucceed THEN SUCCESS ELSE FAILED,
                    !.completed = TRUE, !.writer = "timer"]
    ELSE tx

\* the entry transactions.set(transactionId, {request, response, status,
\* createdAt}) stores; writer, forced and timerSaw are history: the operation
\* that last wrote the status, the status last written by
\* setTransactionStatus, and the status the timer callback found ("none"
\* while it has not run on the entry)
StoredTransaction(c, initialStatus) ==
    [request |-> [customerPhone |-> c.phone, amount |-> c.amount,
                  description |-> c.description, reference |-> c.reference],
     status |-> initialStatus, completed |-> FALSE,
     writer |-> "initiatePayment", forced |-> "none", timerSaw |-> "none"]

\* MockProvider.initiatePayment after its delay: draws the outcome, stores
\* the transaction, arms the flip timer and returns the response
MockInitiateResume ==
    /\ \E c \in calls, r \in RandomPercents :
         /\ c.op = "initiatePayment" /\ c.pc = "delay" /\ c.wait = 0
         /\ LET willSucceed   == shouldSucceed(r)
                initialStatus == IF mockCfg.simulatePending THEN PENDING
                                 ELSE IF willSucceed THEN SUCCESS ELSE FAILED
                id            == nextTx + 1
            IN  /\ nextTx' = id
                /\ transactions' =
                     [transactions EXCEPT ![c.p] =
                        @ @@ (id :> StoredTransaction(c, initialStatus))]
                /\ timers' =
                     IF mockCfg.simulatePending
                     THEN timers \cup {[p |-> c.p, tx |-> id,
                                        willSucceed |-> willSucceed,
                                        remaining |-> FlipDelay]}
                     ELSE timers
                /\ last' = [Response(c, providers[c.p].provider, initialStatus,
                                      TRUE, id)
                              EXCEPT !.paymentUrl =
                                        IF providers[c.p].provider = ORANGE_MONEY
                                        THEN "https://mock.orange.com/pay" ELSE @]
                /\ calls' = calls \ {c}
    /\ UNCHANGED <<providers, isMockMode, mockCfg, token, statusVars, phoneVars,
            edgeVars>>

\* the setTimeout callback of initiatePayment fires
FlipTimer ==
    /\ \E t \in timers :
         /\ t.remaining = 0
         /\ timers' = timers \ {t}
         /\ transactions' =
              IF t.tx \in DOMAIN transactions[t.p]
              THEN [transactions EXCEPT ![t.p][t.tx] =
                      [Flipped(@, t.willSucceed)
                         EXCEPT !.timerSaw = transactions[t.p][t.tx].status]]
              ELSE transactions
    /\ UNCHANGED <<providers, isMockMode, mockCfg, token, calls, nextTx, last,
                   statusVars, phoneVars, edgeVars>>

\* getTransactionStatus throwing NOT_FOUND for an id it does not hold
UnknownTransactionThrows(c) ==
    Failure(c.via, c.op, "NOT_FOUND", providers[c.p].provider, c.phone, FALSE,
            "Transaction non trouvee")

\* the TransactionDetails of getTransactionStatus for an id the table does
\* not hold
UnknownTransactionDetails(c) ==
    [Details(c, providers[c.p].provider, FAILED, 0, FALSE, "none")
       EXCEPT !.description = "Transaction non trouvee"]

\* the details built from the first request the table holds, whatever the
\* id asked for
FirstTransactionDetails(c, tx) ==
    LET first == transactions[c.p][CHOOSE i \in DOMAIN transactions[c.p] :
                                      \A j \in DOMAIN transactions[c.p] : i <= j]
    IN  [Details(c, providers[c.p].provider, tx.status, first.request.amount, TRUE,
                 tx.writer)
           EXCEPT !.phone = first.request.customerPhone,
                  !.description = first.request.description,
                  !.reference = first.request.reference,
                  !.forced = tx.forced]

\* a getTransactionStatus that returns the force-set status it found when it
\* was called, before its delay
StoredTransactionDetailsAtCall(c, tx) ==
    [Details(c, providers[c.p].provider,
             IF c.expected # "none" THEN c.expected ELSE tx.status,
             tx.request.amount, TRUE, tx.writer)
       EXCEPT !.phone = tx.request.customerPhone,
              !.description = tx.request.description,
              !.reference = tx.request.reference,
              !.forced = tx.forced]

\* the TransactionDetails of getTransactionStatus for a stored entry tx
StoredTransactionDetails(c, tx) ==
    [Details(c, providers[c.p].provider, tx.status, tx.request.amount, TRUE,
             tx.writer)
       EXCEPT !.phone = tx.request.customerPhone,
              !.description = tx.request.description,
              !.reference = tx.request.reference,
              !.forced = tx.forced]

\* MockProvider.getTransactionStatus after its delay
MockStatusResume ==
    /\ \E c \in calls :
         /\ c.op = "getTransactionStatus" /\ c.pc = "delay" /\ c.wait = 0
         /\ last' =
              IF c.tx \in DOMAIN transactions[c.p]
              THEN StoredTransactionDetails(c, transactions[c.p][c.tx])
              ELSE UnknownTransactionDetails(c)
         /\ calls' = calls \ {c}
    /\ UNCHANGED <<providers, isMockMode, mockCfg, transactions, timers, token,
                   nextTx, statusVars, phoneVars, edgeVars>>

\* one tick of time passes: possible only when every due timer has fired
\* and every call whose delay is over has resumed
Tick ==
    /\ timers # {} \/ \E c \in calls : c.pc = "delay"
    /\ \A t \in timers : t.remaining > 0
    /\ \A c \in calls : c.pc = "delay" => c.wait > 0
    /\ timers' = {[t EXCEPT !.remaining = @ - 1] : t \in timers}
    /\ calls' = {IF c.pc = "delay" THEN [c EXCEPT !.wait = @ - 1] ELSE c : c \in calls}
    /\ UNCHANGED <<providers, isMockMode, mockCfg, transactions, token, nextTx, last,
                   statusVars, phoneVars, edgeVars>>

\* the statuses given to setTransactionStatus: the non-terminal one and one
\* only a force-set can write
ForcedStatuses == {PENDING, CANCELLED}

\* a force-set that leaves a completed transaction alone
ForceSetUnlessCompleted(tx, status) ==
    IF tx.completed THEN tx
    ELSE [tx EXCEPT !.status = status,
                    !.completed = IF status # PENDING THEN TRUE ELSE @,
                    !.writer = "setTransactionStatus", !.forced = status]

\* the body of setTransactionStatus on a stored entry
ForceSet(tx, status) ==
    [tx EXCEPT !.status = status,
               !.completed = IF status # PENDING THEN TRUE ELSE @,
               !.writer = "setTransactionStatus", !.forced = status]

\* MockProvider.setTransactionStatus(transactionId, status)
SetTransactionStatus ==
    /\ \E p \in Provider, tx \in (1..nextTx) \cup {UnknownTx},
          status \in ForcedStatuses :
         /\ providers[p].kind = "mock"
         /\ IF tx \in DOMAIN transactions[p]
            THEN /\ transactions' =
                      [transactions EXCEPT ![p][tx] = ForceSet(@, status)]
                 /\ last' = [NoCall EXCEPT !.via = "direct",
                                !.op = "setTransactionStatus", !.outcome = "boolean",
                                !.provider = p, !.status = status, !.success = TRUE,
                                !.tx = tx]
            ELSE /\ UNCHANGED transactions
                 /\ last' = [NoCall EXCEPT !.via = "direct",
                                !.op = "setTransactionStatus", !.outcome = "boolean",
                                !.provider = p, !.status = status, !.success = FALSE,
                                !.tx = tx]
    /\ UNCHANGED <<providers, isMockMode, mockCfg, timers, token, calls, nextTx,
                   statusVars, phoneVars, edgeVars>>

\* MockProvider.clearTransactions()
ClearTransactions ==
    /\ \E p \in Provider :
         /\ providers[p].kind = "mock"
         /\ transactions' = [transactions EXCEPT ![p] = <<>>]
         /\ last' = [NoCall EXCEPT !.via = "direct", !.op = "clearTransactions",
                                   !.outcome = "void", !.provider = p]
    /\ UNCHANGED <<providers, isMockMode, mockCfg, timers, token, calls, nextTx,
                   statusVars, phoneVars, edgeVars>>

\* MockProvider.initiatePayment(request) called on the adapter itself
DirectInitiate ==
    /\ \E p \in Provider, req \in DirectRequests, w \in 1..MaxDelay :
         /\ providers[p].kind = "mock"
         /\ Cardinality(calls) < MaxInFlight
         /\ nextTx + IdsReserved < MaxDirectTx
         /\ calls' = calls \cup
               {[Call("direct", "initiatePayment", p, "delay", w, req.customerPhone,
                      req.amount, 0, FALSE)
                   EXCEPT !.description = req.description,
                          !.reference = req.reference]}
    /\ UNCHANGED <<providers, isMockMode, mockCfg, transactions, timers, token,
                   nextTx, last, statusVars, phoneVars, edgeVars>>

\* MockProvider.getTransactionStatus(request) called on the adapter itself
DirectGetStatus ==
    /\ \E p \in Provider, tx \in (1..nextTx) \cup {UnknownTx} :
         /\ providers[p].kind = "mock"
         /\ StartStatus("direct", p, tx)
    /\ UNCHANGED <<statusVars, phoneVars, edgeVars>>

(***************************************************************************)
(* Real adapters (providers/base.ts, mvola.ts, orange-money.ts,            *)
(* airtel-money.ts)                                                        *)
(***************************************************************************)
\* a handleError that takes only HTTP 401 for an authentication failure
handleErrorCodeOnly401(h) ==
    IF h = 401 THEN "AUTH_ERROR"
    ELSE IF h = 400 THEN "VALIDATION_ERROR"
    ELSE IF h = 404 THEN "NOT_FOUND"
    ELSE IF h # 0 /\ h >= 500 THEN "SERVER_ERROR"
    ELSE "UNKNOWN_ERROR"

\* BaseProvider.handleError on an axios error of HTTP status h (0: none)
handleErrorCode(h) ==
    IF h = 401 \/ h = 403 THEN "AUTH_ERROR"
    ELSE IF h = 400 THEN "VALIDATION_ERROR"
    ELSE IF h = 404 THEN "NOT_FOUND"
    ELSE IF h # 0 /\ h >= 500 THEN "SERVER_ERROR"
    ELSE "UNKNOWN_ERROR"

\* BaseProvider.handleError on an error that is no axios error
InternalErrorCode == "INTERNAL_ERROR"

\* axiosError.response?.data: the upstream error body, absent without a
\* response
ErrorBody(h) == IF h = 0 THEN "none" ELSE "upstream body"

\* this.token = {accessToken, tokenType, expiresIn, expiresAt} built from one
\* answer r of the token endpoint; ttl is expiresAt - 60000 - Date.now(),
\* never counted below 0
TokenFrom(r) ==
    [accessToken |-> r.access_token, expiresIn |-> r.expires_in,
     ttl |-> IF r.expires_in > SafetyMargin THEN r.expires_in - SafetyMargin ELSE 0]

\* a getValidToken that checks the token again after authenticate and calls
\* authenticate once more when the check fails
AfterAuthPcRecheck(tok) == IF tok.ttl > 0 THEN "http" ELSE "auth"

\* getValidToken after authenticate has returned: the token is returned
\* without a second check, and the operation issues its request
AfterAuthPc(tok) == "http"

\* an authenticate whose catch block drops the cached token
TokenAfterAuthFailureCleared(p) == NoToken

\* the cache after authenticate has thrown: handleError leaves this.token
TokenAfterAuthFailure(p) == token[p]

\* the error a failed token request ends in, its cause being an HTTP status h
\* (0: no response) or the timeout: authenticate throws handleError's
\* PaymentError; inside initiatePayment or getTransactionStatus the catch
\* block hands that PaymentError to handleError again, which takes it for an
\* error that is no axios error
AuthFailure(c, h, cause) ==
    [(IF c.op = "authenticate"
      THEN Failure(c.via, c.op, handleErrorCode(h), providers[c.p].provider,
                   c.phone, FALSE, "authenticate")
      ELSE Failure(c.via, c.op, InternalErrorCode, providers[c.p].provider,
                   c.phone, c.via \in {"pay", "smartPay"}, handleErrorCode(h)))
       EXCEPT !.stage = "token", !.cause = cause, !.http = h,
              !.body = IF c.op = "authenticate" THEN ErrorBody(h) ELSE "PaymentError"]

\* the error a failed payment or status request ends in
RequestFailure(c, h, cause) ==
    [Failure(c.via, c.op, handleErrorCode(h), providers[c.p].provider, c.phone,
             c.via \in {"pay", "smartPay"}, "upstream")
       EXCEPT !.stage = "request", !.cause = cause, !.http = h, !.body = ErrorBody(h)]

\* authenticate() called on the adapter has returned
AuthResult(c) ==
    [NoCall EXCEPT !.via = c.via, !.op = "authenticate", !.outcome = "void",
                   !.provider = providers[c.p].provider, !.stage = "token"]

\* the token request of authenticate() returns: the token is replaced
\* wholesale and the suspended operation issues its own request with it, or
\* authenticate throws
RealAuthDone ==
    /\ \E c \in calls :
         /\ c.pc = "auth"
         /\ \/ \E r \in TokenResponses :
                 /\ token' = [token EXCEPT ![c.p] = TokenFrom(r)]
                 /\ IF c.op = "authenticate"
                    THEN /\ calls' = calls \ {c}
                         /\ last' = AuthResult(c)
                    ELSE /\ calls' = (calls \ {c}) \cup
                              {[c EXCEPT !.pc = AfterAuthPc(TokenFrom(r)),
                                         !.sent = TokenFrom(r),
                                         !.headers =
                                            RequestHeaders(c.p,
                                               IF AfterAuthPc(TokenFrom(r)) = "auth"
                                               THEN "authenticate" ELSE c.op),
                                         !.wait = RequestTimeout,
                                         !.auths = IF AfterAuthPc(TokenFrom(r)) = "auth"
                                                   THEN @ + 1 ELSE @]}
                         /\ UNCHANGED last
            \/ \E h \in UpstreamFailures :
                 /\ last' = AuthFailure(c, h, "http")
                 /\ calls' = calls \ {c}
                 /\ token' = [token EXCEPT ![c.p] = TokenAfterAuthFailure(c.p)]
    /\ UNCHANGED <<providers, isMockMode, mockCfg, transactions, timers, nextTx,
                   statusVars, phoneVars, edgeVars>>

\* the PaymentResponse.status the MVola and Airtel Money adapters derive from
\* the upstream body: mapStatus of the native status
RealInitiateStatus(p, tok) == AdapterMapStatus(p, tok)

\* bodies of the Orange Money web payment endpoint's answers: status,
\* message and payment_url of response.data ("none": the field is absent)
OrangePaymentBodies ==
    {[status |-> 201, message |-> "OK", payment_url |-> "https://pay/abc"],
     [status |-> 200, message |-> "OK", payment_url |-> "https://pay/abc"],
     [status |-> 201, message |-> "Created", payment_url |-> "https://pay/abc"],
     [status |-> 201, message |-> "OK", payment_url |-> "none"],
     [status |-> 200, message |-> "Expired credentials", payment_url |-> "none"]}

\* const success = response.data.status === 201 || response.data.message === 'OK'
OrangeAccepted(body) == body.status = 201 \/ body.message = "OK"

\* an initiatePayment that takes the accepted web payment for a completed one
OrangeInitiateStatusFinal(body) == IF OrangeAccepted(body) THEN SUCCESS ELSE FAILED

\* status: success ? TransactionStatus.PENDING : TransactionStatus.FAILED
OrangeInitiateStatus(body) == IF OrangeAccepted(body) THEN PENDING ELSE FAILED

\* the PaymentResponse of OrangeMoneyProvider.initiatePayment for the body of
\* the upstream answer
OrangeInitiateResponse(c, body) ==
    [Response(c, ORANGE_MONEY, OrangeInitiateStatus(body), OrangeAccepted(body), 0)
       EXCEPT !.paymentUrl = body.payment_url, !.msg = body.message,
              !.http = body.status]

\* the payment or status request of a real adapter returns
RealHttpDone ==
    /\ \E c \in calls :
         /\ c.pc = "http"
         /\ \/ /\ c.op = "initiatePayment" /\ c.p = ORANGE_MONEY
               /\ \E body \in OrangePaymentBodies :
                     last' = OrangeInitiateResponse(c, body)
            \/ /\ ~(c.op = "initiatePayment" /\ c.p = ORANGE_MONEY)
               /\ \E tok \in UpstreamStatuses :
                 last' =
                    IF c.op = "initiatePayment"
                    THEN LET st == RealInitiateStatus(c.p, tok)
                         IN  Response(c, providers[c.p].provider, st,
                                      st \in {PENDING, SUCCESS}, 0)
                    ELSE Details(c, providers[c.p].provider,
                                 AdapterMapStatus(c.p, tok), c.amount, TRUE, "none")
            \/ \E h \in UpstreamFailures : last' = RequestFailure(c, h, "http")
         /\ calls' = calls \ {c}
    /\ UNCHANGED <<providers, isMockMode, mockCfg, transactions, timers, token,
                   nextTx, statusVars, phoneVars, edgeVars>>

\* the axios timeout of a pending request expires: the request is rejected
\* with an axios error that has no response
RealTimeout ==
    /\ \E c \in calls :
         /\ c.pc \in {"auth", "http"}
         /\ c.wait = 0
         /\ last' = IF c.pc = "auth" THEN AuthFailure(c, 0, "timeout")
                    ELSE RequestFailure(c, 0, "timeout")
         /\ calls' = calls \ {c}
         /\ token' = IF c.pc = "auth"
                     THEN [token EXCEPT ![c.p] = TokenAfterAuthFailure(c.p)]
                     ELSE token
    /\ UNCHANGED <<providers, isMockMode, mockCfg, transactions, timers, nextTx,
                   statusVars, phoneVars, edgeVars>>

\* 30 s pass on the real adapters' clock: cached tokens age and pending
\* requests near their timeout; a request whose timeout is due is rejected
\* or answered first
TimePasses ==
    /\ \/ \E p \in Provider : token[p].ttl > 0
       \/ \E c \in calls : c.pc \in {"auth", "http"}
    /\ \A c \in calls : c.pc \in {"auth", "http"} => c.wait > 0
    /\ token' = [p \in Provider |->
                    IF token[p].ttl > 0 THEN [token[p] EXCEPT !.ttl = @ - 1]
                    ELSE token[p]]
    /\ calls' = {IF c.pc \in {"auth", "http"} THEN [c EXCEPT !.wait = @ - 1] ELSE c :
                    c \in calls}
    /\ UNCHANGED <<providers, isMockMode, mockCfg, transactions, timers, nextTx,
                   last, statusVars, phoneVars, edgeVars>>

\* adapter.initiatePayment(request) called on a real adapter
RealDirectInitiate ==
    /\ \E p \in Provider :
         /\ providers[p].kind = "real"
         /\ Cardinality(calls) < MaxRacing
         /\ calls' = calls \cup
               {RealCall("direct", "initiatePayment", p, P_MVOLA, 5000, 0)}
    /\ UNCHANGED <<providers, isMockMode, mockCfg, transactions, timers, token,
                   nextTx, last, statusVars, phoneVars, edgeVars>>

\* adapter.getTransactionStatus(request) called on a real adapter
RealDirectGetStatus ==
    /\ \E p \in Provider :
         /\ providers[p].kind = "real"
         /\ Cardinality(calls) < MaxRacing
         /\ calls' = calls \cup
               {RealCall("direct", "getTransactionStatus", p, EmptyStr, 0, UnknownTx)}
    /\ UNCHANGED <<providers, isMockMode, mockCfg, transactions, timers, token,
                   nextTx, last, statusVars, phoneVars, edgeVars>>

\* adapter.authenticate() called on a real adapter
DirectAuthenticate ==
    /\ \E p \in Provider :
         /\ providers[p].kind = "real"
         /\ Cardinality(calls) < MaxRacing
         /\ calls' = calls \cup
               {[Call("direct", "authenticate", p, "auth", RequestTimeout, EmptyStr,
                      0, 0, FALSE)
                   EXCEPT !.auths = 1,
                          !.headers = RequestHeaders(p, "authenticate")]}
    /\ UNCHANGED <<providers, isMockMode, mockCfg, transactions, timers, token,
                   nextTx, last, statusVars, phoneVars, edgeVars>>

(***************************************************************************)
(* Spec: one gateway, constructed in simulation mode or with real adapters *)
(***************************************************************************)
Init ==
    /\ \E cfg \in Configs :
         /\ providers = initializeProviders(cfg)
         /\ isMockMode = cfg.mockEnabled
         /\ mockCfg = IF cfg.mockEnabled THEN MockConstructor(cfg) ELSE DefaultMockCfg
    /\ transactions = [p \in Provider |-> <<>>]
    /\ timers = {}
    /\ token = [p \in Provider |-> NoToken]
    /\ calls = {}
    /\ nextTx = 0
    /\ last = NoCall
    /\ StatusIdle
    /\ PhoneIdle
    /\ EdgeIdle

Next ==
    \/ Pay
    \/ SmartPay
    \/ GetStatus
    \/ MockInitiateResume
    \/ MockStatusResume
    \/ FlipTimer
    \/ Tick
    \/ RealAuthDone
    \/ RealHttpDone
    \/ RealTimeout
    \/ TimePasses

Spec == Init /\ [][Next]_vars

(***************************************************************************)
(* SpecReal: one real adapter used on its own by concurrent callers        *)
(***************************************************************************)
\* the networks the adapter is constructed for
RealNetworks == {MVOLA, ORANGE_MONEY, AIRTEL_MONEY}

RealInit ==
    /\ \E p \in RealNetworks :
         providers = [q \in Provider |->
                        IF q = p THEN [kind |-> "real", provider |-> p]
                        ELSE NoAdapter]
    /\ isMockMode = FALSE
    /\ mockCfg = DefaultMockCfg
    /\ transactions = [p \in Provider |-> <<>>]
    /\ timers = {}
    /\ token = [p \in Provider |-> NoToken]
    /\ calls = {}
    /\ nextTx = 0
    /\ last = NoCall
    /\ StatusIdle
    /\ PhoneIdle
    /\ EdgeIdle

RealNext ==
    \/ RealDirectInitiate
    \/ RealDirectGetStatus
    \/ DirectAuthenticate
    \/ RealAuthDone
    \/ RealHttpDone
    \/ RealTimeout
    \/ TimePasses

SpecReal == RealInit /\ [][RealNext]_vars

(***************************************************************************)
(* SpecMock: one MockProvider used on its own                              *)
(***************************************************************************)
\* the networks a MockProvider used on its own is constructed for
MockNetworks == {MVOLA, ORANGE_MONEY}

MockInit ==
    /\ \E p \in MockNetworks, cfg \in Configs :
         /\ cfg.mockEnabled
         /\ providers = [q \in Provider |->
                           IF q = p THEN [kind |-> "mock", provider |-> p]
                           ELSE NoAdapter]
         /\ mockCfg = MockConstructor(cfg)
    /\ isMockMode = FALSE
    /\ transactions = [p \in Provider |-> <<>>]
    /\ timers = {}
    /\ token = [p \in Provider |-> NoToken]
    /\ calls = {}
    /\ nextTx = 0
    /\ last = NoCall
    /\ StatusIdle
    /\ PhoneIdle
    /\ EdgeIdle

MockNext ==
    \/ DirectInitiate
    \/ DirectGetStatus
    \/ MockInitiateResume
    \/ MockStatusResume
    \/ FlipTimer
    \/ Tick
    \/ SetTransactionStatus
    \/ ClearTransactions

SpecMock == MockInit /\ [][MockNext]_vars

(***************************************************************************)
(* Properties of the gateway (Spec)                                        *)
(***************************************************************************)
\* the network a phone is classified to, read off the prefix table of the
\* specification: the owner of the third digit of its normalized form
ClassifiedNetwork(phone) ==
    LET n == normalizePhone(phone)
    IN  IF IsLocal03(n) THEN OwnerOfThirdDigit(n[3]) ELSE "none"

\* the error codes an adapter operation throws
AdapterErrorCodes ==
    {"AUTH_ERROR", "VALIDATION_ERROR", "NOT_FOUND", "SERVER_ERROR", "UNKNOWN_ERROR",
     "INTERNAL_ERROR"}

\* C6: a smartPay on a phone whose classified network is configured, once
\* it returns a response, returns one whose provider field is the
\* classified network, with real and with simulated adapters; it ends in an
\* error only with real adapters, the error being the adapter's own
\* (upstream or authentication failure) and carrying the same network.
C6_SmartPayReturnsClassifiedNetwork ==
    LET net == ClassifiedNetwork(last.phone)
    IN  (last.via = "smartPay" /\ net \in Provider /\ hasProvider(net)) =>
          /\ last.outcome \in {"response", "error"}
          /\ last.outcome = "response" => last.provider = net
          /\ last.outcome = "error" =>
               /\ ~isMockMode
               /\ last.op = "initiatePayment"
               /\ last.code \in AdapterErrorCodes
               /\ last.provider = net

C6_Witness ==
    /\ isMockMode
    /\ last.via = "smartPay"
    /\ last.outcome = "response"
    /\ last.phone = P_ORANGE
    /\ last.provider = ORANGE_MONEY

\* the codes of the validation failures of pay
PayValidationCodes ==
    {"PROVIDER_DETECTION_FAILED", "INVALID_PHONE", "PROVIDER_NOT_CONFIGURED"}

\* what pay has established when an adapter operation runs on its behalf,
\* and what each validation failure reports
PayValidatedBeforeAdapter ==
    /\ \A c \in calls :
         c.via \in {"pay", "smartPay"} =>
            /\ validatePhone(c.phone).isValid
            /\ hasProvider(c.p)
    /\ (last.via \in {"pay", "smartPay"} /\ last.op = "initiatePayment") =>
            /\ validatePhone(last.phone).isValid
            /\ hasProvider(last.provider)
    /\ (last.op = "pay" /\ last.code = "PROVIDER_DETECTION_FAILED") =>
            detectProvider(last.phone) = "none"
    /\ (last.op = "pay" /\ last.code = "INVALID_PHONE") =>
            /\ ~validatePhone(last.phone).isValid
            /\ last.msg = validatePhone(last.phone).error.msg
    /\ (last.op = "pay" /\ last.code = "PROVIDER_NOT_CONFIGURED") =>
            ~hasProvider(last.provider)
    /\ (last.op = "pay" /\ last.outcome = "error") => last.code \in PayValidationCodes

\* a step in which pay raises a validation failure starts no adapter call,
\* requests no token, and stores no transaction, timer or transaction id
PayFailureTouchesNoAdapter ==
    (/\ last' # last
     /\ last'.op = "pay"
     /\ last'.outcome = "error"
     /\ last'.code \in PayValidationCodes)
    => UNCHANGED <<calls, transactions, timers, token, nextTx>>

\* C7: every validation failure of pay (detection failed, invalid phone
\* with the classifier's reason, network not configured) is raised before
\* any adapter operation: the failing step leaves the adapters' calls,
\* tokens and stored transactions as they were, and every adapter call made
\* for pay carries a valid phone and a configured network.
C7_PayValidatesBeforeAdapter ==
    /\ []PayValidatedBeforeAdapter
    /\ [][PayFailureTouchesNoAdapter]_vars

C7_Witness ==
    /\ last.via = "pay"
    /\ last.op = "pay"
    /\ last.code = "INVALID_PHONE"
    /\ last.phone = P_SHORT
    /\ calls = {}
    /\ nextTx = 0

\* C8: smartPay fails with UNKNOWN_PHONE_NUMBER when detectProvider returns
\* none, fails with PROVIDER_NOT_CONFIGURED carrying the detected network
\* when that network has no adapter, and calls pay only otherwise; in both
\* failure cases pay was not called.
C8_SmartPayFailsBeforePay ==
    /\ \A c \in calls :
         c.via = "smartPay" =>
            /\ detectProvider(c.phone) = c.p
            /\ hasProvider(c.p)
    /\ last.via = "smartPay" =>
         LET net == detectProvider(last.phone)
         IN  /\ net = "none" =>
                  /\ last.outcome = "error"
                  /\ last.op = "smartPay"
                  /\ last.code = "UNKNOWN_PHONE_NUMBER"
                  /\ ~last.payCalled
             /\ (net # "none" /\ ~hasProvider(net)) =>
                  /\ last.outcome = "error"
                  /\ last.op = "smartPay"
                  /\ last.code = "PROVIDER_NOT_CONFIGURED"
                  /\ last.provider = net
                  /\ ~last.payCalled
             /\ (net # "none" /\ hasProvider(net)) => last.payCalled

C8_Witness ==
    /\ last.via = "smartPay"
    /\ last.code = "PROVIDER_NOT_CONFIGURED"
    /\ last.provider = AIRTEL_MONEY
    /\ last.phone = P_AIRTEL
    /\ ~last.payCalled

(***************************************************************************)
(* Properties of the simulated adapter (SpecMock)                          *)
(***************************************************************************)
\* C9: with simulatePending false, initiatePayment returns SUCCESS when the
\* success rate is 100 and FAILED when it is 0, whatever the random draw,
\* and stores the transaction with that status.
C9_SuccessRateExtremes ==
    (/\ last.op = "initiatePayment"
     /\ last.outcome = "response"
     /\ ~mockCfg.simulatePending) =>
        /\ mockCfg.successRate = 100 => last.status = SUCCESS
        /\ mockCfg.successRate = 0 => last.status = FAILED

C9_Witness ==
    /\ last.op = "initiatePayment"
    /\ last.outcome = "response"
    /\ ~mockCfg.simulatePending
    /\ mockCfg.successRate = 0
    /\ last.status = FAILED

\* the terminal states of the unified status
TerminalStatus == TransactionStatus \ {PENDING}

\* C10 as stated: with simulatePending, initiatePayment returns PENDING and
\* a status query made once the flip delay has elapsed returns a terminal
\* state.
C10_QueryAfterFlipIsTerminal ==
    mockCfg.simulatePending =>
       /\ (last.op = "initiatePayment" /\ last.outcome = "response") =>
             last.status = PENDING
       /\ (last.op = "getTransactionStatus" /\ last.outcome = "details"
             /\ last.afterFlip) =>
             last.status \in TerminalStatus

\* C10 amended: with simulatePending, initiatePayment returns PENDING and a
\* status query made once the flip delay has elapsed returns a terminal
\* state, unless the status it reads was written by setTransactionStatus.
C10_QueryAfterFlipIsTerminalUnlessForced ==
    mockCfg.simulatePending =>
       /\ (last.op = "initiatePayment" /\ last.outcome = "response") =>
             last.status = PENDING
       /\ (last.op = "getTransactionStatus" /\ last.outcome = "details"
             /\ last.afterFlip /\ last.writer # "setTransactionStatus") =>
             last.status \in TerminalStatus

C10_Witness ==
    /\ mockCfg.simulatePending
    /\ last.op = "getTransactionStatus"
    /\ last.outcome = "details"
    /\ last.afterFlip
    /\ last.writer = "timer"
    /\ last.status = SUCCESS

(***************************************************************************)
(* Properties of the simulated adapter's table (SpecMock)                  *)
(***************************************************************************)
\* call c has returned or thrown in this step
Completes(c) == \A d \in calls' : d.id # c.id

\* a status query of the simulated adapter that finds no entry under its id
\* returns details with status FAILED and amount 0
UnknownQueryReturnsFailed ==
    \A c \in calls :
       (/\ c.op = "getTransactionStatus"
        /\ providers[c.p].kind = "mock"
        /\ Completes(c)
        /\ c.tx \notin DOMAIN transactions[c.p]) =>
           /\ last'.outcome = "details"
           /\ last'.op = "getTransactionStatus"
           /\ last'.tx = c.tx
           /\ last'.status = FAILED
           /\ last'.amount = 0

\* a status query answered by a simulated adapter never ends in an error
MockQueryNeverThrows ==
    (/\ last.op = "getTransactionStatus"
     /\ last.provider \in Provider
     /\ providers[last.provider].kind = "mock") => last.outcome = "details"

\* C11: getTransactionStatus of the simulated adapter, and getStatus of a
\* gateway in simulation mode, for an id the table does not hold returns
\* details with status FAILED and amount 0 and never throws, whatever the
\* table holds (nothing yet, other payments, nothing after
\* clearTransactions).
C11_UnknownTransactionIsFailed ==
    /\ []MockQueryNeverThrows
    /\ [][UnknownQueryReturnsFailed]_vars

C11_Witness ==
    /\ last.op = "getTransactionStatus"
    /\ last.outcome = "details"
    /\ ~last.success
    /\ last.tx = 1
    /\ last.status = FAILED
    /\ last.amount = 0
    /\ transactions[last.provider] = <<>>

\* the request fields a PaymentResponse or TransactionDetails record carries
RequestOf(r) ==
    [customerPhone |-> r.phone, amount |-> r.amount,
     description |-> r.description, reference |-> r.reference]

\* the step in which initiatePayment returns id T stores under T the request
\* it was called with
StoresOriginalRequest ==
    \A p \in Provider :
       \A T \in DOMAIN transactions'[p] \ DOMAIN transactions[p] :
          /\ last'.op = "initiatePayment"
          /\ last'.outcome = "response"
          /\ last'.tx = T
          /\ transactions'[p][T].request = RequestOf(last')

\* a stored request is never rewritten while its entry remains
KeepsStoredRequest ==
    \A p \in Provider :
       \A T \in DOMAIN transactions'[p] \cap DOMAIN transactions[p] :
          transactions'[p][T].request = transactions[p][T].request

\* a status query that finds an entry under T returns T and the entry's
\* request fields
QueryReturnsStoredRequest ==
    \A c \in calls :
       (/\ c.op = "getTransactionStatus"
        /\ providers[c.p].kind = "mock"
        /\ Completes(c)
        /\ c.tx \in DOMAIN transactions[c.p]) =>
           /\ last'.outcome = "details"
           /\ last'.tx = c.tx
           /\ RequestOf(last') = transactions[c.p][c.tx].request

\* C12: after initiatePayment(request) returned id T, every later
\* getTransactionStatus(T) with no clearTransactions in between returns
\* details with id T and the amount, customer phone, description and
\* reference of that request, whatever other payments were initiated in
\* between: T's entry is stored with the request, keeps it while it
\* remains, and is what the query returns.
C12_QueryReturnsOriginalRequest ==
    [][StoresOriginalRequest /\ KeepsStoredRequest /\ QueryReturnsStoredRequest]_vars

C12_Witness ==
    /\ last.op = "getTransactionStatus"
    /\ last.outcome = "details"
    /\ last.success
    /\ last.tx = 1
    /\ nextTx = 2
    /\ last.reference = "ORDER-1"
    /\ last.amount = 5000
    /\ 2 \in DOMAIN transactions[last.provider]
    /\ transactions[last.provider][2].request.amount = 1000

\* this step is a completed setTransactionStatus(T, s), T and s being
\* last'.tx and last'.status
ForceSetStep ==
    /\ last'.op = "setTransactionStatus"
    /\ last' # last \/ (transactions' # transactions /\ timers' = timers)

\* setTransactionStatus on a stored T returns true and writes s to T's entry
\* only; on an unknown T it returns false and leaves the table as it was
ForceSetEffect ==
    ForceSetStep =>
       LET p == last'.provider
           T == last'.tx
       IN  IF T \in DOMAIN transactions[p]
           THEN /\ last'.success
                /\ DOMAIN transactions'[p] = DOMAIN transactions[p]
                /\ transactions'[p][T].status = last'.status
                /\ \A U \in DOMAIN transactions[p] \ {T} :
                      transactions'[p][U] = transactions[p][U]
                /\ \A q \in Provider \ {p} : transactions'[q] = transactions[q]
           ELSE /\ ~last'.success
                /\ transactions' = transactions

\* C13 as stated: a status query for T made after setTransactionStatus(T, s),
\* with no other force-set of T since, returns s.
C13_QueryReturnsForcedStatus ==
    (/\ last.op = "getTransactionStatus"
     /\ last.outcome = "details"
     /\ last.success
     /\ last.expected # "none"
     /\ last.forced = last.expected) => last.status = last.expected

\* the status read was last written by setTransactionStatus, and is the one
\* it was given
ForcedStatusIsRead ==
    (/\ last.op = "getTransactionStatus"
     /\ last.outcome = "details"
     /\ last.success
     /\ last.writer = "setTransactionStatus") => last.status = last.forced

\* C13 amended: setTransactionStatus(T, s) on a stored T returns true and
\* sets T's status to s, which a status query for T returns unless the flip
\* timer has rewritten it in between (a status forced to PENDING before the
\* flip delay is flipped like any other); on an unknown T it returns false
\* and leaves the whole table unchanged.
C13_ForceSetUntilFlip ==
    /\ []ForcedStatusIsRead
    /\ [][ForceSetEffect]_vars

C13_Witness ==
    /\ last.op = "getTransactionStatus"
    /\ last.outcome = "details"
    /\ last.success
    /\ last.writer = "setTransactionStatus"
    /\ last.expected = CANCELLED
    /\ last.status = CANCELLED
    /\ last.afterFlip

(***************************************************************************)
(* Properties of the gateway's adapters (Spec)                             *)
(***************************************************************************)
\* in simulation mode every network is bound to a simulated adapter;
\* otherwise no network is
SimulationBindsAll ==
    /\ isMockMode => \A p \in Provider : providers[p].kind = "mock"
    /\ ~isMockMode => \A p \in Provider : providers[p].kind \in {"real", "absent"}
    /\ \A p \in Provider : hasProvider(p) => providers[p].provider = p

\* C14: a gateway constructed in simulation mode binds each of the three
\* networks to a simulated adapter whatever credentials were supplied, so
\* hasProvider holds for all three; simulated and real adapters never
\* coexist in one gateway, and no operation changes the binding.
C14_SimulationReplacesEveryAdapter ==
    /\ []SimulationBindsAll
    /\ [][providers' = providers /\ isMockMode' = isMockMode]_vars

C14_Witness ==
    /\ isMockMode
    /\ \A p \in Provider : hasProvider(p) /\ providers[p].kind = "mock"
    /\ last.via = "pay"
    /\ last.outcome = "response"
    /\ nextTx = 1

(***************************************************************************)
(* Token cache of the real adapters (SpecReal)                             *)
(***************************************************************************)
\* the tokens authenticate can install, as built from one answer of the
\* token endpoint
FreshTokens == {TokenFrom(r) : r \in TokenResponses}

\* an operation call of a real adapter, as opposed to authenticate() itself
IsOperation(c) == c.op \in {"initiatePayment", "getTransactionStatus"}

\* a call that this step starts
Starts(d) == \A c \in calls : c.id # d.id

\* an operation invokes authenticate when it starts exactly when the cache is
\* empty or the current time is not strictly before expiry minus 60 seconds
AuthenticatesExactlyWhenInvalid ==
    \A d \in calls' :
       (Starts(d) /\ IsOperation(d) /\ providers[d.p].kind = "real") =>
           /\ (d.pc = "auth") = (token[d.p] = NoToken \/ token[d.p].ttl = 0)
           /\ (d.pc = "http") = (token[d.p] # NoToken /\ token[d.p].ttl >= 1)
           /\ d.pc = "http" => d.sent = token[d.p] /\ d.auths = 0
           /\ d.pc = "auth" => d.auths = 1

SentTokenCheckedOrFresh ==
    \A c \in calls :
       (IsOperation(c) /\ c.pc = "http") =>
           /\ c.sent # NoToken
           /\ c.auths = 0 => c.sent.ttl > 0
           /\ c.auths # 0 => c.sent \in FreshTokens

AuthenticateNotRepeated ==
    \A c \in calls : \A d \in calls' : d.id = c.id => d.auths = c.auths

\* C16: one initiatePayment or getTransactionStatus call invokes
\* authenticate at most once, also while other calls on the same adapter
\* replace the token or the token expires
C16_RefreshAtMostOncePerCall ==
    [](\A c \in calls : IsOperation(c) => c.auths <= 1)
       /\ [][AuthenticateNotRepeated]_vars

\* C16 witness: an operation that has refreshed the token is suspended in
\* its request while the shared token is no longer valid and another call is
\* refreshing it
C16_Witness ==
    \E c, d \in calls :
       /\ IsOperation(c) /\ c.pc = "http" /\ c.auths = 1
       /\ d.id # c.id /\ d.p = c.p /\ d.pc = "auth"
       /\ ~isTokenValid(c.p)

\* the cache is empty or holds the fields of one answer of the token
\* endpoint, aged
CacheHoldsOneToken ==
    \A p \in Provider :
       \/ token[p] = NoToken
       \/ \E r \in TokenResponses :
            /\ token[p].accessToken = r.access_token
            /\ token[p].expiresIn = r.expires_in
            /\ token[p].ttl <= TokenFrom(r).ttl

\* an operation that has refreshed proceeds with a token authenticate built
RacingCallsSendProducedToken ==
    \A c \in calls :
       (IsOperation(c) /\ c.pc = "http" /\ c.auths = 1) => c.sent \in FreshTokens

\* a refresh that succeeds installs one whole token, with which its
\* operation proceeds; a refresh that fails leaves the cache as it is
RefreshStep ==
    \A c \in calls :
       c.pc = "auth" =>
          /\ (Completes(c) /\ last'.outcome = "error") => token' = token
          /\ (Completes(c) /\ last'.outcome = "void") =>
                token'[c.p] \in FreshTokens
          /\ \A d \in calls' :
                (d.id = c.id /\ d.pc = "http") =>
                    token'[c.p] \in FreshTokens /\ d.sent = token'[c.p]

\* C17: when racing calls each refresh the token, the cache holds one whole
\* token of one authenticate call, each call proceeds with a token some
\* authenticate produced, and a failing refresh removes no installed token
C17_RacingRefreshesLeaveOneToken ==
    [](CacheHoldsOneToken /\ RacingCallsSendProducedToken)
       /\ [][RefreshStep]_vars

\* C17 witness: two operations have each refreshed the token, they proceed
\* with different tokens, and the cache holds the later one
C17_Witness ==
    \E c, d \in calls :
       /\ IsOperation(c) /\ IsOperation(d) /\ c.p = d.p
       /\ c.pc = "http" /\ d.pc = "http" /\ c.auths = 1 /\ d.auths = 1
       /\ c.sent.accessToken # d.sent.accessToken
       /\ token[c.p].accessToken = d.sent.accessToken

\* the error codes of the authentication class
AuthenticationCodes == {"AUTH_ERROR", "AUTH_FAILED"}

\* C18 as stated: a failure to obtain or refresh the token surfaces as an
\* authentication-class error carrying the network, from authenticate()
\* called directly as from the implicit refresh, whatever the upstream
\* failure was
C18_TokenFailureIsAuthenticationError ==
    (last.outcome = "error" /\ last.stage = "token") =>
        /\ last.code \in AuthenticationCodes
        /\ last.provider \in Provider

\* C19: a failed payment or status request gives AUTH_ERROR for HTTP 401 and
\* 403, VALIDATION_ERROR for 400, NOT_FOUND for 404, SERVER_ERROR from 500
\* on and UNKNOWN_ERROR otherwise, with the adapter's network and the
\* upstream body when there is a response; pay and getStatus hand the error
\* on unchanged
C19_RequestFailureTaxonomy ==
    (last.outcome = "error" /\ last.stage = "request") =>
        /\ last.http \in {401, 403} => last.code = "AUTH_ERROR"
        /\ last.http = 400 => last.code = "VALIDATION_ERROR"
        /\ last.http = 404 => last.code = "NOT_FOUND"
        /\ last.http >= 500 => last.code = "SERVER_ERROR"
        /\ last.http \notin {400, 401, 403, 404} /\ last.http < 500 =>
              last.code = "UNKNOWN_ERROR"
        /\ last.provider \in Provider
        /\ providers[last.provider].kind = "real"
        /\ last.http # 0 => last.body = "upstream body"

\* C19 witness: pay has thrown the AUTH_ERROR of a payment request answered
\* with HTTP 403
C19_Witness ==
    /\ last.via = "pay" /\ last.op = "initiatePayment"
    /\ last.outcome = "error" /\ last.stage = "request"
    /\ last.http = 403 /\ last.code = "AUTH_ERROR"
    /\ last.body = "upstream body"

\* C20 as stated: a call whose request timeout expires fails with
\* SERVER_ERROR
C20_TimeoutIsServerError ==
    (last.outcome = "error" /\ last.cause = "timeout") => last.code = "SERVER_ERROR"

(***************************************************************************)
(* Payment responses of the adapters                                       *)
(***************************************************************************)
\* C21: initiatePayment of the real Orange Money adapter never returns
\* SUCCESS: it returns PENDING with the redirect URL of the upstream answer
\* when the upstream accepted the web payment, and FAILED otherwise
C21_OrangeRedirectIsPending ==
    (/\ last.outcome = "response"
     /\ last.op = "initiatePayment"
     /\ last.provider = ORANGE_MONEY
     /\ providers[ORANGE_MONEY].kind = "real") =>
        /\ last.status # SUCCESS
        /\ last.status \in {PENDING, FAILED}
        /\ (last.status = PENDING) = (last.http = 201 \/ last.msg = "OK")
        /\ \E body \in OrangePaymentBodies :
              /\ body.status = last.http /\ body.message = last.msg
              /\ last.paymentUrl = body.payment_url

\* C21 witness: the web payment was accepted and initiatePayment has
\* returned PENDING with the redirect URL
C21_Witness ==
    /\ last.outcome = "response" /\ last.op = "initiatePayment"
    /\ last.provider = ORANGE_MONEY /\ providers[ORANGE_MONEY].kind = "real"
    /\ last.msg = "OK" /\ last.http = 200
    /\ last.status = PENDING /\ last.paymentUrl = "https://pay/abc"

(***************************************************************************)
(* Simulated adapter: reads and writes of one transaction                  *)
(***************************************************************************)
\* a status query of the simulated adapter returns the status the table
\* holds when the query reads it after its delay, with the write that put it
\* there
QueryReadsCurrentStatus ==
    \A c \in calls :
       (/\ c.op = "getTransactionStatus"
        /\ providers[c.p].kind = "mock"
        /\ Completes(c)
        /\ c.tx \in DOMAIN transactions[c.p]) =>
           /\ last'.outcome = "details"
           /\ last'.tx = c.tx
           /\ last'.status = transactions[c.p][c.tx].status
           /\ last'.writer = transactions[c.p][c.tx].writer

\* C22: a status query of the simulated adapter returns the status of the
\* latest write (initiatePayment, the flip, setTransactionStatus) completed
\* before it reads the table, also when writes happen while it is suspended
\* in its delay
C22_QueryReflectsLatestWrite == [][QueryReadsCurrentStatus]_vars

\* C22 witness: a query called after one force-set has returned the status of
\* a later write made while it was suspended
C22_Witness ==
    /\ last.outcome = "details" /\ last.op = "getTransactionStatus"
    /\ last.success
    /\ last.expected # "none"
    /\ last.status # last.expected
    /\ last.writer \in {"timer", "setTransactionStatus"}

\* a step in which the due timer t fires
TimerFires(t) ==
    /\ t \in timers /\ t.remaining = 0
    /\ timers' = timers \ {t}

\* the entry of transaction tx of adapter p without its history of the timer
StoredFields(p, tx) ==
    [f \in {"request", "status", "completed"} |-> transactions[p][tx][f]]

\* the firing timer changes its own transaction only when that is stored and
\* PENDING, giving it SUCCESS or FAILED; it creates no entry, changes no other
\* entry and ends no call with an error
FlipOnlyPending ==
    \A t \in timers :
       TimerFires(t) =>
          /\ last' = last
          /\ calls' = calls
          /\ \A p \in Provider :
                /\ DOMAIN transactions'[p] = DOMAIN transactions[p]
                /\ \A tx \in DOMAIN transactions[p] :
                      IF p = t.p /\ tx = t.tx /\ transactions[p][tx].status = PENDING
                      THEN /\ transactions'[p][tx].status \in {SUCCESS, FAILED}
                           /\ transactions'[p][tx].request = transactions[p][tx].request
                      ELSE /\ transactions'[p][tx].status = transactions[p][tx].status
                           /\ transactions'[p][tx].completed
                                 = transactions[p][tx].completed
                           /\ transactions'[p][tx].request = transactions[p][tx].request

\* a status force-set to a terminal value stays until the next force-set
ForcedTerminalKept ==
    \A p \in Provider : \A tx \in DOMAIN transactions[p] :
       (transactions[p][tx].forced \notin {"none", PENDING}) =>
           transactions[p][tx].status = transactions[p][tx].forced

\* C27: the flip changes only a transaction that is stored and still PENDING
\* when the timer fires; a terminal status force-set before is kept, and a
\* timer firing after clearTransactions creates no entry and raises nothing
C27_FlipOnlyChangesPending == []ForcedTerminalKept /\ [][FlipOnlyPending]_vars

\* C27 witness: the timer has run on a transaction that had been force-set
\* to CANCELLED, which is still its status, and the entry of an earlier
\* payment removed by clearTransactions has not come back although every
\* timer has fired
C27_Witness ==
    \E p \in Provider : \E tx \in DOMAIN transactions[p] :
       /\ transactions[p][tx].timerSaw = CANCELLED
       /\ transactions[p][tx].status = CANCELLED
       /\ transactions[p][tx].writer = "setTransactionStatus"
       /\ nextTx = 2 /\ DOMAIN transactions[p] = {tx}
       /\ timers = {}

\* C28 as stated: a stored transaction of the simulated adapter has a
\* completion timestamp exactly when its status is not PENDING
C28_CompletedIffTerminal ==
    \A p \in Provider : \A tx \in DOMAIN transactions[p] :
       transactions[p][tx].completed = (transactions[p][tx].status # PENDING)

\* C29 as stated: a PaymentResponse of initiatePayment has success true
\* exactly when its status is PENDING or SUCCESS
C29_SuccessIffPendingOrSuccess ==
    (last.outcome = "response" /\ last.op = "initiatePayment") =>
        (last.success = (last.status \in {PENDING, SUCCESS}))

(***************************************************************************)
(* Routing of pay                                                          *)
(***************************************************************************)
\* the request names a configured network and its phone classifies as valid
\* for another one
NamesOtherNetwork(req) ==
    /\ req.provider # "none"
    /\ hasProvider(req.provider)
    /\ detectProvider(req.customerPhone) \notin {"none", req.provider}

\* what pay decides for each request under the adapters bound: the named
\* network alone routes when one is named, the classified one only when none
\* is named, and an unclassified phone without a named network fails
\* detection
PayRoutesByNamedNetwork ==
    \A req \in PayRequests :
       /\ NamesOtherNetwork(req) =>
             /\ PayRouting(req).code = "OK"
             /\ PayRouting(req).provider = req.provider
       /\ PayRouting(req).code = "OK" =>
             PayRouting(req).provider =
                IF req.provider # "none" THEN req.provider
                ELSE detectProvider(req.customerPhone)
       /\ (req.provider = "none" /\ detectProvider(req.customerPhone) = "none") =>
             PayRouting(req).code = "PROVIDER_DETECTION_FAILED"

\* the adapter call pay starts, and the response pay returns, are those of
\* the network pay routed a request with this phone to; the invalid-phone
\* error is raised only for a phone that a named network came with
PayDelegatesAsRouted ==
    /\ \A c \in calls :
         c.via = "pay" =>
            \E req \in PayRequests :
               /\ req.customerPhone = c.phone
               /\ PayRouting(req).code = "OK"
               /\ PayRouting(req).provider = c.p
               /\ detectProvider(c.phone) # c.p => req.provider = c.p
    /\ (last.via = "pay" /\ last.outcome = "response") =>
            /\ hasProvider(last.provider)
            /\ providers[last.provider].provider = last.provider
    /\ (last.via = "pay" /\ last.code = "INVALID_PHONE") =>
            \A req \in PayRequests :
               (req.customerPhone = last.phone /\ req.provider = "none") =>
                   PayRouting(req).code = "PROVIDER_DETECTION_FAILED"

\* C30: pay routes by the named network alone: with network N named and a
\* phone valid for another network M it delegates to N's adapter and the
\* response's network is N; M is used only when no network is named, and
\* then an unclassified phone gives PROVIDER_DETECTION_FAILED, never
\* INVALID_PHONE
C30_PayRoutesByNamedNetwork == PayRoutesByNamedNetwork /\ PayDelegatesAsRouted

\* C30 witness: pay has returned the response of the MVola adapter for a
\* phone that classifies as Orange Money
C30_Witness ==
    /\ last.via = "pay" /\ last.outcome = "response"
    /\ last.provider = MVOLA
    /\ detectProvider(last.phone) = ORANGE_MONEY

(***************************************************************************)
(* Headers of the MVola adapter's requests                                 *)
(***************************************************************************)
\* C25 as stated: every upstream request the MVola adapter issues, the
\* authentication request included, carries the custom header set
\* (correlation id, partner name and the other per-request headers)
C25_MVolaHeadersOnEveryRequest ==
    \A c \in calls :
       (c.p = MVOLA /\ providers[c.p].kind = "real" /\ c.pc \in {"auth", "http"}) =>
           MVolaCustomHeaders \subseteq c.headers

(***************************************************************************)
(* REST server: API-key middleware (server.ts) and callback routes         *)
(* (api/routes.ts)                                                         *)
(***************************************************************************)
\* the padding character of padEnd(256, '\0')
Nul == "\\0"

\* values of the X-API-Key header (Undefined: no header) and of
\* API_SECRET_KEY (Undefined: not set)
SecretKey  == <<"k", "e", "y">>
WrongKey   == <<"k", "e", "x">>
PaddedKey  == <<"k", "e", "y", Nul>>
ApiKeys    == {Undefined, EmptyStr, SecretKey, WrongKey, PaddedKey}

\* a.padEnd(256, '\0')
PadEnd(a) ==
    IF Len(a) >= PadLength THEN a
    ELSE a \o [i \in 1..(PadLength - Len(a)) |-> Nul]

\* utils/crypto.ts timingSafeCompare: crypto.timingSafeEqual throws on
\* buffers of different lengths, which the catch turns into false
timingSafeCompare(a, b) ==
    IF a = Undefined \/ b = Undefined THEN FALSE
    ELSE IF Len(PadEnd(a)) # Len(PadEnd(b)) THEN FALSE
    ELSE PadEnd(a) = PadEnd(b) /\ Len(a) = Len(b)

\* the routes mounted under /api
CallbackPosts ==
    {"/api/callback/mvola", "/api/callback/orange/notify", "/api/callback/airtel"}
CallbackPages == {"/api/callback/orange/return"}
CallbackRoutes == CallbackPosts \cup CallbackPages
ApiRoutes == {"/api/pay", "/api/status"}

\* the network a callback route serves
RouteProvider(route) ==
    IF route = "/api/callback/mvola" THEN MVOLA
    ELSE IF route = "/api/callback/airtel" THEN AIRTEL_MONEY
    ELSE ORANGE_MONEY

\* req.ip: Undefined, or an address, IPv4-mapped or not
ProviderIp == "197.149.0.1"
ClientIps ==
    {Undefined, <<ProviderIp>>, <<"::ffff:", ProviderIp>>, <<"41.0.0.9">>}

\* clientIp.replace(/^::ffff:/, '')
CleanIp(ip) == IF ip[1] = "::ffff:" THEN ip[2] ELSE ip[1]

\* routes.ts isIpAllowed
isIpAllowed(clientIp, allowedIps) ==
    IF allowedIps = {} THEN TRUE
    ELSE IF clientIp = Undefined THEN FALSE
    ELSE CleanIp(clientIp) \in allowedIps

\* callback bodies: one the network's schema accepts and one it rejects
ValidBody == "body"
InvalidBody == "malformed body"
CallbackBodies == {ValidBody, InvalidBody}
SchemaAccepts(body) == body = ValidBody

\* createHmacSignature(data, secret): the hex digest, as the pair it is
\* computed from, and a header value of another length
Hmac(data, secret) == <<"hmac", data, secret>>
CallbackSecret == "s3cret"
ShortSignature == <<"abc">>
Signatures ==
    {Undefined, ShortSignature} \cup
    {Hmac(b, k) : b \in CallbackBodies, k \in {CallbackSecret, "other"}}

\* utils/crypto.ts verifyHmacSignature
verifyHmacSignature(data, signature, secret) ==
    IF Len(signature) # Len(Hmac(data, secret)) THEN FALSE
    ELSE signature = Hmac(data, secret)

\* routes.ts isSignatureValid
isSignatureValid(body, signature, secret) ==
    IF secret = "none" THEN TRUE
    ELSE IF signature = Undefined THEN FALSE
    ELSE verifyHmacSignature(body, signature, secret)

\* process.env: API_SECRET_KEY, <NETWORK>_ALLOWED_IPS, <NETWORK>_CALLBACK_SECRET
ServerEnvs ==
    [apiSecretKey : {Undefined, SecretKey},
     allowedIps : {[p \in Provider |-> {}], [p \in Provider |-> {ProviderIp}],
                   [p \in Provider |-> IF p = MVOLA THEN {ProviderIp} ELSE {}]},
     callbackSecret : {[p \in Provider |-> "none"],
                       [p \in Provider |-> CallbackSecret],
                       [p \in Provider |-> IF p = AIRTEL_MONEY THEN CallbackSecret
                                           ELSE "none"]}]

\* incoming requests
HttpRequests ==
    [route : CallbackRoutes \cup ApiRoutes, apiKey : ApiKeys, ip : ClientIps,
     signature : Signatures, body : CallbackBodies]

\* a request entering the /api middleware chain; requests are served
\* independently of one another, so one is followed
Receive ==
    /\ httpReq.pc = "none"
    /\ \E r \in HttpRequests :
         httpReq' = [pc |-> "apiKeyAuth", r |-> r, res |-> 0, steps |-> <<>>]
    /\ UNCHANGED <<serverEnv, poller, statusVars, phoneVars, gwVars>>

\* server.ts apiKeyAuth: "next" or the 401 response
apiKeyAuth(r) ==
    IF serverEnv.apiSecretKey = Undefined THEN "next"
    ELSE IF r.apiKey = Undefined \/ r.apiKey = EmptyStr
            \/ ~timingSafeCompare(r.apiKey, serverEnv.apiSecretKey)
    THEN "401"
    ELSE "next"

\* app.use('/api', apiKeyAuth, createRoutes(paidmada)): the middleware runs
ApiKeyAuth ==
    /\ httpReq.pc = "apiKeyAuth"
    /\ httpReq' =
         IF apiKeyAuth(httpReq.r) = "next"
         THEN [httpReq EXCEPT !.pc = "route", !.steps = Append(@, "apiKeyAuth")]
         ELSE [httpReq EXCEPT !.pc = "done", !.res = 401,
                              !.steps = Append(@, "apiKeyAuth")]
    /\ UNCHANGED <<serverEnv, poller, statusVars, phoneVars, gwVars>>

\* a callback handler that parses before it checks the source
callbackHandlerParseFirst(r) ==
    LET p == RouteProvider(r.route)
    IN  IF ~SchemaAccepts(r.body)
        THEN [res |-> 400, steps |-> <<"schema.parse">>]
        ELSE IF ~isIpAllowed(r.ip, serverEnv.allowedIps[p])
        THEN [res |-> 403, steps |-> <<"schema.parse", "parseCallback", "isIpAllowed">>]
        ELSE IF ~isSignatureValid(r.body, r.signature, serverEnv.callbackSecret[p])
        THEN [res |-> 401, steps |-> <<"schema.parse", "parseCallback", "isIpAllowed",
                                       "isSignatureValid">>]
        ELSE [res |-> 200, steps |-> <<"schema.parse", "parseCallback", "isIpAllowed",
                                       "isSignatureValid">>]

\* router.post('/callback/<network>'): the response status and the steps
\* the handler ran
callbackHandler(r) ==
    LET p == RouteProvider(r.route)
    IN  IF ~isIpAllowed(r.ip, serverEnv.allowedIps[p])
        THEN [res |-> 403, steps |-> <<"isIpAllowed">>]
        ELSE IF ~isSignatureValid(r.body, r.signature, serverEnv.callbackSecret[p])
        THEN [res |-> 401, steps |-> <<"isIpAllowed", "isSignatureValid">>]
        ELSE IF ~SchemaAccepts(r.body)
        THEN [res |-> 400, steps |-> <<"isIpAllowed", "isSignatureValid",
                                       "schema.parse">>]
        ELSE [res |-> 200, steps |-> <<"isIpAllowed", "isSignatureValid",
                                       "schema.parse", "parseCallback">>]

\* a provider callback POST reaches its handler
CallbackPost ==
    /\ httpReq.pc = "route"
    /\ httpReq.r.route \in CallbackPosts
    /\ httpReq' = [httpReq EXCEPT !.pc = "done",
                                  !.res = callbackHandler(httpReq.r).res,
                                  !.steps = @ \o <<"handler">>
                                              \o callbackHandler(httpReq.r).steps]
    /\ UNCHANGED <<serverEnv, poller, statusVars, phoneVars, gwVars>>

\* any other route reaches its handler: the Orange Money return page, or an
\* API route, whose validation and gateway call are not followed here
OtherRoute ==
    /\ httpReq.pc = "route"
    /\ httpReq.r.route \notin CallbackPosts
    /\ httpReq' = [httpReq EXCEPT !.pc = "done", !.res = 200,
                                  !.steps = Append(@, "handler")]
    /\ UNCHANGED <<serverEnv, poller, statusVars, phoneVars, gwVars>>

ServerInit ==
    /\ serverEnv \in ServerEnvs
    /\ httpReq = NoRequest
    /\ poller = NoPoller
    /\ StatusIdle
    /\ PhoneIdle
    /\ GatewayIdle

ServerNext ==
    \/ Receive
    \/ ApiKeyAuth
    \/ CallbackPost
    \/ OtherRoute

SpecServer == ServerInit /\ [][ServerNext]_vars

\* whether step x is among the steps taken for the request
Ran(x) == \E i \in 1..Len(httpReq.steps) : httpReq.steps[i] = x

\* whether step x was taken before step y, when both were taken
Before(x, y) ==
    \A i, j \in 1..Len(httpReq.steps) :
       (httpReq.steps[i] = x /\ httpReq.steps[j] = y) => i < j

\* C23 as stated: with API_SECRET_KEY set, a request to a callback route
\* without X-API-Key reaches the callback handler, while any other /api
\* request without the right key gets 401 before its handler
C23_CallbacksSkipApiKey ==
    (httpReq.pc = "done" /\ serverEnv.apiSecretKey # Undefined) =>
        /\ (httpReq.r.route \in CallbackRoutes /\ httpReq.r.apiKey = Undefined) =>
              Ran("handler")
        /\ (httpReq.r.route \notin CallbackRoutes
            /\ httpReq.r.apiKey # serverEnv.apiSecretKey) =>
              httpReq.res = 401 /\ ~Ran("handler")

MaxAttemptsOptions ==
    {[given |-> FALSE, value |-> 0]} \cup
    {[given |-> TRUE, value |-> n] : n \in 0..MaxAttemptsGiven}

\* const maxAttempts = options?.maxAttempts || 30
EffectiveMaxAttempts(opt) ==
    IF opt.given /\ opt.value # 0 THEN opt.value ELSE DefaultMaxAttempts

\* a loop test that admits one attempt more
LoopTestInclusive(attempt, maxAttempts) == attempt <= maxAttempts

\* for (...; attempt < maxAttempts; ...)
LoopTest(attempt, maxAttempts) == attempt < maxAttempts

\* details.status === 'success' || 'failed' || 'expired' || 'cancelled'
IsTerminal(status) == status \in {SUCCESS, FAILED, EXPIRED, CANCELLED}

\* the loop head: another query, or the TIMEOUT error after the loop
LoopHead(pl) ==
    IF LoopTest(pl.attempt, pl.maxAttempts)
    THEN [pl EXCEPT !.pc = "query"]
    ELSE [pl EXCEPT !.pc = "thrown", !.code = "TIMEOUT"]

\* client.waitForCompletion(request, options) up to its first await
WaitForCompletion ==
    /\ poller.pc = "none"
    /\ \E opt \in MaxAttemptsOptions, notify \in BOOLEAN :
         poller' = LoopHead([pc |-> "start", opt |-> opt, notify |-> notify,
                             maxAttempts |-> EffectiveMaxAttempts(opt),
                             attempt |-> 0, queries |-> 0, answered |-> 0,
                             notified |-> 0,
                             status |-> "none", code |-> "none"])
    /\ UNCHANGED <<serverEnv, httpReq, statusVars, phoneVars, gwVars>>

\* await this.getStatus(request) returns details: onStatusChange is called
\* when given, and a terminal status is returned
QueryReturns ==
    /\ poller.pc = "query"
    /\ \E st \in TransactionStatus :
         poller' = [poller EXCEPT !.queries = @ + 1,
                                  !.answered = @ + 1,
                                  !.notified = IF poller.notify THEN @ + 1 ELSE @,
                                  !.status = st,
                                  !.pc = IF IsTerminal(st) THEN "returned" ELSE "sleep"]
    /\ UNCHANGED <<serverEnv, httpReq, statusVars, phoneVars, gwVars>>

\* await this.getStatus(request) rejects (the response interceptor's
\* PaidMadaClientError, the request timeout included): the error leaves
\* waitForCompletion
QueryFails ==
    /\ poller.pc = "query"
    /\ poller' = [poller EXCEPT !.queries = @ + 1, !.pc = "thrown",
                                !.code = "NETWORK_ERROR"]
    /\ UNCHANGED <<serverEnv, httpReq, statusVars, phoneVars, gwVars>>

\* the setTimeout(resolve, intervalMs) between two attempts fires
SleepEnds ==
    /\ poller.pc = "sleep"
    /\ poller' = LoopHead([poller EXCEPT !.attempt = @ + 1])
    /\ UNCHANGED <<serverEnv, httpReq, statusVars, phoneVars, gwVars>>

ClientInit ==
    /\ poller = NoPoller
    /\ serverEnv = NoEnv
    /\ httpReq = NoRequest
    /\ StatusIdle
    /\ PhoneIdle
    /\ GatewayIdle

ClientNext ==
    \/ WaitForCompletion
    \/ QueryReturns
    \/ QueryFails
    \/ SleepEnds

\* every getStatus request ends (the HTTP client has a request timeout) and
\* every setTimeout fires
SpecClient ==
    /\ ClientInit
    /\ [][ClientNext]_vars
    /\ WF_vars(QueryReturns \/ QueryFails)
    /\ WF_vars(SleepEnds)

\* waitForCompletion is running or has ended
Polling == poller.pc # "none"
Ended == poller.pc \in {"returned", "thrown"}

\* C26 as stated: at most maxAttempts status queries are issued, 30 when
\* maxAttempts is not given
C26_AtMostMaxAttemptsQueries ==
    Polling =>
       poller.queries <= (IF poller.opt.given THEN poller.opt.value ELSE 30)

\* the number of queries is bounded by maxAttempts, 30 standing for a
\* maxAttempts that is absent or 0; a returned detail is terminal and is
\* that of the last query; onStatusChange has run once per query that
\* returned details; TIMEOUT is thrown after exactly that many non-terminal
\* results; a query that fails ends waitForCompletion with its error
PollingBounded ==
    Polling =>
       LET bound == IF poller.opt.given /\ poller.opt.value > 0
                    THEN poller.opt.value ELSE 30
       IN  /\ poller.queries <= bound
           /\ poller.notified = (IF poller.notify THEN poller.answered ELSE 0)
           /\ poller.answered =
                 (IF poller.pc = "thrown" /\ poller.code # "TIMEOUT"
                  THEN poller.queries - 1 ELSE poller.queries)
           /\ poller.pc = "returned" =>
                 /\ poller.status \in {SUCCESS, FAILED, EXPIRED, CANCELLED}
                 /\ poller.status # PENDING
                 /\ poller.queries = poller.attempt + 1
           /\ (poller.pc = "thrown" /\ poller.code = "TIMEOUT") =>
                 /\ poller.queries = bound
                 /\ poller.status = PENDING
           /\ (poller.pc \in {"query", "sleep"} /\ poller.queries > 0) =>
                 poller.status = PENDING

\* once waitForCompletion has returned or thrown it queries no more
NoQueryAfterEnd == Ended => poller' = poller

\* C26: waitForCompletion ends; it issues at most maxAttempts queries (30
\* when maxAttempts is absent or 0), returns the first terminal detail
\* without querying again, calls onStatusChange once per query that returns
\* details, throws TIMEOUT after that many non-terminal results and never
\* returns PENDING
C26_WaitForCompletionTerminates ==
    /\ []PollingBounded
    /\ [][NoQueryAfterEnd]_vars
    /\ (Polling ~> Ended)

\* C26 witness: maxAttempts given as 0, thirty queries all answered PENDING
\* with onStatusChange called for each, then TIMEOUT
C26_Witness ==
    /\ poller.pc = "thrown" /\ poller.code = "TIMEOUT"
    /\ poller.opt.given /\ poller.opt.value = 0
    /\ poller.queries = 30 /\ poller.notified = 30

====
